---- MODULE Spec2Model ----
(***************************************************************************)
(* A model of the mini LSM-tree table: LSMTableService (the coordinator),  *)
(* MemTable, WAL, SSTable / SSTableBuilder and CompactionManager.          *)
(*                                                                         *)
(* Keys and values are byte strings, modelled as sequences of small        *)
(* numbers.  time.Now() is a strictly increasing clock.  The data          *)
(* directory (WAL files, SSTable files) survives a restart of the          *)
(* process; everything else is rebuilt by NewLSMTableService.              *)
(***************************************************************************)
EXTENDS Integers, Sequences, FiniteSets, TLC

VARIABLES
    maxTableSize,     \* LSMTableService.maxTableSize
    activeTable,      \* LSMTableService.activeTable (a MemTable)
    immutableTables,  \* LSMTableService.immutableTables
    sstablesByLevel,  \* LSMTableService.sstablesByLevel: level -> slice of tables
    wal,              \* LSMTableService.wal: counter in the name of the open WAL file
    walCounter,       \* LSMTableService.walCounter
    walFiles,         \* wal directory: counter -> records of wal_<counter>.log
    sstFiles,         \* sstables directory: file name -> records of the file
    compactions,      \* number of runCompaction goroutines started and not yet run
    clock,            \* last value returned by time.Now()
    phase,            \* "running", or "closed" after Close
    fresh,            \* TRUE until the first Put/Delete of this process
    recoveries,       \* number of Recovery calls made by this process
    budget,           \* Put/Delete calls the clients may still make
    lastErr,          \* error class returned by the last Put/Delete/Recovery
    restarts,         \* number of times the process was restarted on the data directory
    expected,         \* history: key -> result of the last successful Put/Delete of this process
    beforeClose,      \* history: key -> result of Get just before the last Close
    builder,          \* SpecBuild: SSTableBuilder.entries of a builder under test
    built,            \* SpecBuild: what Build returned and wrote for that builder
    walBuffer,        \* SpecWAL: WAL.writer, the bytes bufio.Writer holds back
    walDisk,          \* SpecWAL: the bytes of the WAL file
    walWritten,       \* SpecWAL history: the entries handed to WriteEntry
    walFlushed,       \* SpecWAL history: how many of them a Flush has covered
    walTorn,          \* SpecWALTorn history: bytes cut off the end of the file
    walOpen,          \* SpecWAL: WAL.file is open for appending
    walRecovered,     \* SpecWAL: what the last Recover returned
    memTable,         \* SpecMemTable: the MemTable under test
    memCall,          \* SpecMemTable: the last call on it, its result and the table before it
    memClock,         \* SpecMemTable: calls made so far; the time.Now() of the entries
    bloom,            \* SpecBloom: the BloomFilter under test
    bloomAdded,       \* SpecBloom history: the keys added since the last Reset
    bloomOps,         \* SpecBloom: Add and Reset calls made so far
    bloomPanic,       \* SpecBloom: a call on the filter panicked
    blockIndex,       \* SpecBlockIndex: BlockIndex.entries of the index under test
    compBuilder,      \* SpecCompaction: entries of the SSTableBuilder of the next input table
    compInputs,       \* SpecCompaction: the input tables built so far
    compFiles,        \* SpecCompaction: the directory of the tables: file name -> records
    compPhase,        \* SpecCompaction: "adding", "closed" (inputs complete) or "done"
    compResult,       \* SpecCompaction: what ExecuteCompaction returned
    mu,               \* SpecSteps: who holds LSMTableService.mu: "free", "client" or "compaction"
    pc,               \* SpecSteps: where the Put/Delete call in progress stands, or "idle"
    req,              \* SpecSteps: the entry of that call
    pending,          \* SpecSteps: the records the bufio.Writer of the open WAL holds back
    flushingTable,    \* SpecSteps: immutableTable, the local of flushImmutableTableInternal
    bgPc,             \* SpecSteps: where the runCompaction goroutine stands, or "idle"
    bgTask,           \* SpecSteps: task, the local of runCompaction
    bgDone,           \* SpecSteps: outputTables, the local of runCompaction
    seen,             \* SpecSteps: what a Get was answered since mu was last locked
    diskFails,        \* SpecClose: writes to the data directory fail (it is full)
    walErr,           \* SpecClose: the bufio.Writer of the open WAL holds a write error
    buildFails,       \* SpecBuildFault: os.Create in the sstables directory fails
    fnCall            \* a CompactionManager method called on its own: arguments and result

\* the service, its directories and the builder under test
lsmVars == <<maxTableSize, activeTable, immutableTables, sstablesByLevel, wal,
             walCounter, walFiles, sstFiles, compactions, clock, phase, fresh,
             recoveries, budget, lastErr, restarts, expected, beforeClose, builder, built>>

\* the objects that are exercised on their own
walVars == <<walBuffer, walDisk, walWritten, walFlushed, walTorn, walOpen, walRecovered>>

memVars == <<memTable, memCall, memClock>>

bloomVars == <<bloom, bloomAdded, bloomOps, bloomPanic>>

indexVars == <<blockIndex>>

compVars == <<compBuilder, compInputs, compFiles, compPhase, compResult>>

\* the service taken one statement at a time
stepVars == <<mu, pc, req, pending, flushingTable, bgPc, bgTask, bgDone, seen>>

\* the disk under the service
faultVars == <<diskFails, walErr, buildFails>>

\* a call of a method without state
fnVars == <<fnCall>>

unitVars == <<walVars, memVars, bloomVars, indexVars, compVars, stepVars, faultVars, fnVars>>

\* everything but the WAL, the MemTable, the BloomFilter, the BlockIndex, the
\* CompactionManager under test
notWalVars == <<lsmVars, memVars, bloomVars, indexVars, compVars, stepVars, faultVars, fnVars>>
notMemVars == <<lsmVars, walVars, bloomVars, indexVars, compVars, stepVars, faultVars, fnVars>>
notBloomVars == <<lsmVars, walVars, memVars, indexVars, compVars, stepVars, faultVars, fnVars>>
notIndexVars == <<lsmVars, walVars, memVars, bloomVars, compVars, stepVars, faultVars, fnVars>>
notCompVars == <<lsmVars, walVars, memVars, bloomVars, indexVars, stepVars, faultVars, fnVars>>
notStepVars == <<walVars, memVars, bloomVars, indexVars, compVars, faultVars, fnVars>>

vars == <<lsmVars, unitVars>>

(***************************************************************************)
(* Bounds of the model.                                                    *)
(***************************************************************************)
MaxTableSize == 2     \* the capacities tried are 0..MaxTableSize
MaxOps == 5           \* Put/Delete calls in a behaviour of Spec
MaxOpsRestart == 3    \* Put/Delete calls in a behaviour of SpecRestart
MaxOpsMixed == 8      \* Put calls in a behaviour of SpecMixed
MaxBuildLen == 3      \* entries handed to one SSTableBuilder in SpecBuild
MaxRestarts == 1      \* restarts of the process in one behaviour
MaxRecoveries == 2    \* Recovery calls of one process
MaxBlocks == 2        \* full blocks of the block index in a table of SpecIndexed
MaxWalLen == 3        \* WriteEntry calls on the WAL of SpecWAL and SpecWALTorn
MaxMemOps == 4        \* calls on the MemTable of SpecMemTable
MaxBloomCapacity == 3 \* the capacities of the BloomFilter of SpecBloom are 0..MaxBloomCapacity
MaxBloomOps == 4      \* Add and Reset calls on the BloomFilter of SpecBloom
MaxIndexLen == 4      \* entries of the BlockIndex of SpecBlockIndex
MaxCompEntries == 4   \* entries of all input tables of one compaction in SpecCompaction
MaxOpsFault == 4      \* Put/Delete calls in a behaviour of SpecFault
MaxOpsClose == 4      \* Put/Delete calls in a behaviour of SpecClose
MaxOpsAbort == 6      \* Put/Delete calls in a behaviour of SpecAbort
MaxOpsSteps == 6      \* Put/Delete calls in a behaviour of SpecSteps

(***************************************************************************)
(* Program constants.                                                      *)
(***************************************************************************)
maxSSTablesLevel0 == 4
maxSizeLevel0 == 10485760
sizeMultiplier == 10
MaxLevel == 10
RecordOverhead == 17      \* 4 + 4 + 1 + 8 bytes around key and value

KeyA == <<1>>
KeyB == <<2>>
KeyAA == <<1, 1>>
Keys == {KeyAA, KeyB}
MixedKeys == {KeyA, KeyAA, KeyB}
AllKeys == Keys \cup MixedKeys
Values == {<<1>>, <<2>>}
NoValue == <<>>

ErrKeyNotFound == "ErrKeyNotFound"
ErrTableFull == "ErrTableFull"
ErrReadOnly == "memtable is read-only"
ErrIO == "io error"
Ok == "ok"

(***************************************************************************)
(* Byte-string orders.                                                     *)
(***************************************************************************)
RECURSIVE BytesCompare(_, _)
\* bytes.Compare: lexicographic
BytesCompare(a, b) ==
    IF a = <<>> /\ b = <<>> THEN 0
    ELSE IF a = <<>> THEN -1
    ELSE IF b = <<>> THEN 1
    ELSE IF Head(a) < Head(b) THEN -1
    ELSE IF Head(a) > Head(b) THEN 1
    ELSE BytesCompare(Tail(a), Tail(b))

\* compaction.go compareKeys: length first, then byte-wise
compareKeys(key1, key2) ==
    IF Len(key1) < Len(key2) THEN -1
    ELSE IF Len(key1) > Len(key2) THEN 1
    ELSE BytesCompare(key1, key2)

(***************************************************************************)
(* Entry.                                                                  *)
(***************************************************************************)
NewPutEntry(key, value, now) ==
    [key |-> key, value |-> value, entryType |-> "PUT", timestamp |-> now]

NewDeleteEntry(key, now) ==
    [key |-> key, value |-> NoValue, entryType |-> "DELETE", timestamp |-> now]

IsDeleted(e) == e.entryType = "DELETE"

\* Entry.Compare
Compare(e, other) == BytesCompare(e.key, other.key)

\* Entry.IsNewerThan
IsNewerThan(e, other) == e.timestamp > other.timestamp

(***************************************************************************)
(* MemTable.  entries is the Go map, as a function on the stored keys.     *)
(***************************************************************************)
NewMemTable(maxSize) ==
    [entries |-> <<>>, maxSize |-> maxSize, size |-> 0, readOnly |-> FALSE]

MemHas(mt, key) == key \in DOMAIN mt.entries

\* MemTable.Get
MemTableGet(table, key) ==
    IF MemHas(table, key) THEN [err |-> Ok, entry |-> table.entries[key]]
    ELSE [err |-> ErrKeyNotFound]

\* a capacity check that lets one key too many in
MemTableErrLate(table, key) ==
    IF table.readOnly THEN ErrReadOnly
    ELSE IF ~MemHas(table, key) /\ table.size > table.maxSize THEN ErrTableFull
    ELSE Ok

\* a Put / Delete that does not look at readOnly
MemTableErrUnsealed(table, key) ==
    IF ~MemHas(table, key) /\ table.size >= table.maxSize THEN ErrTableFull
    ELSE Ok

\* The error MemTable.Put / MemTable.Delete return for key, or Ok
MemTableErr(mt, key) ==
    IF mt.readOnly THEN ErrReadOnly
    ELSE IF ~MemHas(mt, key) /\ mt.size >= mt.maxSize THEN ErrTableFull
    ELSE Ok

\* a store that counts every call as a new key
MemTableStoreCounting(table, e) ==
    IF MemTableErr(table, e.key) # Ok THEN table
    ELSE [table EXCEPT
            !.size = @ + 1,
            !.entries = [k \in (DOMAIN table.entries) \cup {e.key} |->
                            IF k = e.key THEN e ELSE table.entries[k]]]

\* The table after a Put or Delete that stores entry e (same code path in both)
MemTableStore(mt, e) ==
    IF MemTableErr(mt, e.key) # Ok THEN mt
    ELSE [mt EXCEPT
            !.size = IF MemHas(mt, e.key) THEN @ ELSE @ + 1,
            !.entries = [k \in (DOMAIN mt.entries) \cup {e.key} |->
                            IF k = e.key THEN e ELSE mt.entries[k]]]

MemTablePut(mt, key, value, now) == MemTableStore(mt, NewPutEntry(key, value, now))

MemTableDelete(mt, key, now) == MemTableStore(mt, NewDeleteEntry(key, now))

SetReadOnly(mt) == [mt EXCEPT !.readOnly = TRUE]

RECURSIVE SetToSeq(_)
SetToSeq(S) ==
    IF S = {} THEN <<>>
    ELSE LET x == CHOOSE y \in S : TRUE IN <<x>> \o SetToSeq(S \ {x})

\* MemTable.GetAllEntries: the entries in the map's iteration order
MemTableGetAllEntries(mt) ==
    LET ks == SetToSeq(DOMAIN mt.entries)
    IN [i \in 1..Len(ks) |-> mt.entries[ks[i]]]

(***************************************************************************)
(* Go slices of table pointers: the elements and the capacity of the       *)
(* backing array.  A nil slice is <<>> with capacity 0.                    *)
(***************************************************************************)
NilSlice == [elems |-> <<>>, cap |-> 0]

\* runtime growslice for 8-byte elements, one element appended to a full slice
GrowCap(cap) == IF cap = 0 THEN 1 ELSE 2 * cap

\* append(s, x)
AppendSlice(s, x) ==
    [elems |-> Append(s.elems, x),
     cap |-> IF Len(s.elems) < s.cap THEN s.cap ELSE GrowCap(s.cap)]

\* append(s[:i], s[i+1:]...) for the (1-based) position i
RemoveAt(s, i) ==
    [elems |-> SubSeq(s.elems, 1, i - 1) \o SubSeq(s.elems, i + 1, Len(s.elems)),
     cap |-> s.cap]

(***************************************************************************)
(* BloomFilter.  A uint32 is kept as two 16-bit halves so that no product  *)
(* leaves the range of the checker's integers; bitArray is the set of the  *)
(* indexes that are true.                                                  *)
(***************************************************************************)
Half == 65536

RECURSIVE XorBits(_, _, _)
\* a XOR b on n bits
XorBits(a, b, n) ==
    IF n = 0 THEN 0
    ELSE (((a % 2) + (b % 2)) % 2) + 2 * XorBits(a \div 2, b \div 2, n - 1)

\* hash/fnv: offset basis 2166136261 = 0x811C9DC5
FnvOffsetHi == 33052
FnvOffsetLo == 40389
\* hash/fnv: prime 16777619 = 0x01000193
FnvPrimeHi == 256
FnvPrimeLo == 403

\* hash *= prime32 in uint32
FnvMul(h) ==
    LET low == h.lo * FnvPrimeLo
    IN [lo |-> low % Half,
        hi |-> (h.hi * FnvPrimeLo + h.lo * FnvPrimeHi + (low \div Half)) % Half]

\* hash ^= uint32(byte)
FnvXor(h, byte) ==
    [lo |-> (h.lo \div 256) * 256 + XorBits(h.lo % 256, byte, 8), hi |-> h.hi]

RECURSIVE Fnv32a(_, _)
\* fnv.New32a: for every byte, xor then multiply
Fnv32a(h, key) ==
    IF key = <<>> THEN h ELSE Fnv32a(FnvMul(FnvXor(h, Head(key))), Tail(key))

RECURSIVE Fnv32(_, _)
\* fnv.New32: for every byte, multiply then xor
Fnv32(h, key) ==
    IF key = <<>> THEN h ELSE Fnv32(FnvXor(FnvMul(h), Head(key)), Tail(key))

\* BloomFilter.getHashes
getHashes(key) ==
    LET basis == [hi |-> FnvOffsetHi, lo |-> FnvOffsetLo]
    IN <<Fnv32a(basis, key), Fnv32(basis, key)>>

\* (hashes[0] + uint32(i)*hashes[1]) % bf.size, for bf.size >= 1
BloomIndex(hashes, i, size) ==
    LET low == hashes[1].lo + i * hashes[2].lo
        high == (hashes[1].hi + i * hashes[2].hi + (low \div Half)) % Half
    IN ((high % size) * (Half % size) + (low % Half)) % size

\* the hashes of the keys the services and the filters under test are given,
\* computed once
KnownHashes == [key \in AllKeys \cup {<<>>, <<255, 255>>} |-> getHashes(key)]

\* the indexes Add sets and Contains tests
BloomIndexes(bf, key) ==
    LET hashes == IF key \in DOMAIN KnownHashes THEN KnownHashes[key] ELSE getHashes(key)
    IN {BloomIndex(hashes, i, bf.size) : i \in 0..(bf.hashFuncs - 1)}

\* NewBloomFilter(capacity, 0.01): size = uint32(-capacity * ln 0.01 / (ln 2)^2),
\* hashFuncs = int(size * ln 2 / capacity), at least 1 (the quotients are those
\* of the floating-point expressions for every capacity below 1981)
NewBloomFilter(capacity) ==
    LET size == capacity * 9 + ((capacity * 585058) \div 1000000)
        hashFuncs == IF capacity = 0 THEN 1 ELSE (size * 6931) \div (capacity * 10000)
    IN [bitArray |-> {}, size |-> size,
        hashFuncs |-> IF hashFuncs < 1 THEN 1 ELSE hashFuncs]

\* BloomFilter.Add panics (integer divide by zero) when bf.size = 0
BloomAddPanics(bf) == bf.size = 0

\* an Add that sets the bit of the first probe only
BloomAddFirstProbe(bf, key) ==
    [bf EXCEPT !.bitArray = @ \cup {BloomIndex(getHashes(key), 0, bf.size)}]

\* BloomFilter.Add
BloomAdd(bf, key) == [bf EXCEPT !.bitArray = @ \cup BloomIndexes(bf, key)]

\* BloomFilter.Contains
BloomContains(bf, key) == BloomIndexes(bf, key) \subseteq bf.bitArray

\* BloomFilter.Reset
BloomReset(bf) == [bf EXCEPT !.bitArray = {}]

\* Add for the key of every entry of a sequence
BloomAddAll(bf, entries) ==
    [bf EXCEPT !.bitArray =
        @ \cup UNION {BloomIndexes(bf, entries[i].key) : i \in 1..Len(entries)}]

(***************************************************************************)
(* BlockIndex: the sequence of (Key, Offset) entries.                      *)
(***************************************************************************)
blockSize == 100

NewBlockIndex == <<>>

\* BlockIndex.AddEntry
IndexAddEntry(idx, key, offset) == Append(idx, [Key |-> key, Offset |-> offset])

RECURSIVE FindOffsetLoopStrict(_, _, _, _, _)
\* a search that takes only keys below the target as candidates
FindOffsetLoopStrict(idx, targetKey, left, right, bestOffset) ==
    IF left > right THEN bestOffset
    ELSE LET mid == left + ((right - left) \div 2)
         IN IF BytesCompare(idx[mid + 1].Key, targetKey) < 0
            THEN FindOffsetLoopStrict(idx, targetKey, mid + 1, right, idx[mid + 1].Offset)
            ELSE FindOffsetLoopStrict(idx, targetKey, left, mid - 1, bestOffset)

RECURSIVE FindOffsetLoop(_, _, _, _, _)
\* the binary search of FindOffset over the 0-based positions left..right
FindOffsetLoop(idx, targetKey, left, right, bestOffset) ==
    IF left > right THEN bestOffset
    ELSE LET mid == left + ((right - left) \div 2)
         IN IF BytesCompare(idx[mid + 1].Key, targetKey) <= 0
            THEN FindOffsetLoop(idx, targetKey, mid + 1, right, idx[mid + 1].Offset)
            ELSE FindOffsetLoop(idx, targetKey, left, mid - 1, bestOffset)

\* BlockIndex.FindOffset
FindOffset(idx, targetKey) ==
    IF Len(idx) = 0 THEN 0 ELSE FindOffsetLoop(idx, targetKey, 0, Len(idx) - 1, 0)

(***************************************************************************)
(* SSTable and SSTableBuilder.  A file is the sequence of its records; a   *)
(* byte offset into it is the sum of the sizes of the records before it.   *)
(***************************************************************************)
RECURSIVE InsertByKey(_, _)
\* one pass of the insertion sort behind sort.Slice (fewer than 12 elements):
\* x moves left while less(x, previous), less being Compare(x, previous) < 0
InsertByKey(sorted, x) ==
    IF sorted = <<>> THEN <<x>>
    ELSE LET last == sorted[Len(sorted)]
         IN IF Compare(x, last) < 0
            THEN Append(InsertByKey(SubSeq(sorted, 1, Len(sorted) - 1), x), last)
            ELSE Append(sorted, x)

RECURSIVE SortByKey(_)
\* sort.Slice(builder.entries, Compare < 0)
SortByKey(entries) ==
    IF entries = <<>> THEN <<>>
    ELSE InsertByKey(SortByKey(SubSeq(entries, 1, Len(entries) - 1)),
                     entries[Len(entries)])

\* bytes writeEntry writes for one record
RecordSize(entry) == RecordOverhead + Len(entry.key) + Len(entry.value)

RECURSIVE SizeOfRange(_, _, _)
\* bytes of the records lo..hi
SizeOfRange(entries, lo, hi) ==
    IF lo > hi THEN 0
    ELSE IF lo = hi THEN RecordSize(entries[lo])
    ELSE LET mid == (lo + hi) \div 2
         IN SizeOfRange(entries, lo, mid) + SizeOfRange(entries, mid + 1, hi)

\* bytes written by writeEntry for every record
FileSizeOf(entries) == SizeOfRange(entries, 1, Len(entries))

RECURSIVE StartsOfRange(_, _, _, _)
\* the byte offsets at which the records lo..hi start, the first one at base
StartsOfRange(entries, lo, hi, base) ==
    IF lo > hi THEN <<>>
    ELSE IF lo = hi THEN <<base>>
    ELSE LET mid == (lo + hi) \div 2
             left == StartsOfRange(entries, lo, mid, base)
         IN left \o StartsOfRange(entries, mid + 1, hi,
                                  left[Len(left)] + RecordSize(entries[mid]))

\* currentOffset of the write loop of Build (and the read position of a reader)
\* before each record
RecordStarts(entries) == StartsOfRange(entries, 1, Len(entries), 0)

L0FileName(counter) == [kind |-> "L0", level |-> 0, id |-> counter]

CompactedFileName(level, nanos) == [kind |-> "level", level |-> level, id |-> nanos]

\* the entries in ascending key order, entries of one key in their given order:
\* entry i goes to the position after the entries of smaller key and the
\* earlier entries of its own key
RankByKey(entries) ==
    LET rank == [i \in 1..Len(entries) |->
                    Cardinality({j \in 1..Len(entries) :
                                    \/ Compare(entries[j], entries[i]) < 0
                                    \/ j < i /\ Compare(entries[j], entries[i]) = 0}) + 1]
                \o <<>>
    IN [p \in 1..Len(entries) |->
           entries[CHOOSE i \in 1..Len(entries) : rank[i] = p]] \o <<>>

\* sort.Slice switches from insertion sort to pdqsort at this length
insertionSortLimit == 12

\* SSTableBuilder.Build: the records written to the file.  sort.Slice is an
\* insertion sort below 12 entries; from 12 entries on it is not stable, and
\* the order it leaves is the one of RankByKey when the keys are distinct
BuildRecords(entries) ==
    IF Len(entries) < insertionSortLimit THEN SortByKey(entries) ELSE RankByKey(entries)

\* the positions (from 1) of the records Build enters in the block index:
\* i % blockSize = 0 for the 0-based i
IndexedPositions(n) == {p \in 1..n : (p - 1) % blockSize = 0}

\* the write loop of Build entering in the block index the offset after the
\* record instead of the offset of the record
BuildBlockIndexLate(sorted) ==
    LET starts == RecordStarts(sorted)
    IN [k \in 1..Cardinality(IndexedPositions(Len(sorted))) |->
           LET p == (k - 1) * blockSize + 1
           IN [Key |-> sorted[p].key, Offset |-> starts[p] + RecordSize(sorted[p])]] \o <<>>

\* the write loop of Build: IndexAddEntry(key, currentOffset) for every
\* blockSize-th record, in file order
BuildBlockIndex(sorted) ==
    LET starts == RecordStarts(sorted)
    IN [k \in 1..Cardinality(IndexedPositions(Len(sorted))) |->
           LET p == (k - 1) * blockSize + 1
           IN IndexAddEntry(NewBlockIndex, sorted[p].key, starts[p])[1]] \o <<>>

\* NewSSTableBuilder(level, estimatedEntries), AddEntry for every entry, Build:
\* the in-memory SSTable (metadata and file path)
BuildTableWith(entries, level, fileName, now, estimatedEntries) ==
    LET sorted == BuildRecords(entries)
    IN [level |-> level,
        fileName |-> fileName,
        minKey |-> sorted[1].key,
        maxKey |-> sorted[Len(sorted)].key,
        entryCount |-> Len(sorted),
        fileSize |-> FileSizeOf(sorted),
        createdAt |-> now,
        bloom |-> BloomAddAll(NewBloomFilter(estimatedEntries), entries),
        blockIndex |-> BuildBlockIndex(sorted)]

\* a builder made for exactly the entries it is given, as flush and compaction do
BuildTable(entries, level, fileName, now) ==
    BuildTableWith(entries, level, fileName, now, Len(entries))

\* os.Create + write: the directory after the file is (re)written
WriteFile(files, name, records) ==
    [f \in (DOMAIN files) \cup {name} |-> IF f = name THEN records ELSE files[f]]

\* os.Remove: the directory without the file (a missing file is an ignored error)
RemoveFile(files, name) ==
    [f \in (DOMAIN files) \ {name} |-> files[f]]

\* the read loop of SSTable.Get from the start offset: it stops at the first
\* record whose key is not below the target, or at the end of the file
ScanFor(records, key) ==
    LET reached == {p \in 1..Len(records) : BytesCompare(records[p].key, key) >= 0}
        first == CHOOSE p \in reached : \A q \in reached : p <= q
    IN IF reached = {} THEN [err |-> ErrKeyNotFound]
       ELSE IF BytesCompare(records[first].key, key) = 0
       THEN [err |-> Ok, entry |-> records[first]]
       ELSE [err |-> ErrKeyNotFound]

\* file.Seek(startOffset): the records read from there on.  An offset at or
\* past the end reads nothing; an offset inside a record (Build records none)
\* reads bytes that are no record
SeekTo(records, startOffset) ==
    LET starts == RecordStarts(records)
        at == {p \in 1..Len(records) : starts[p] = startOffset}
    IN IF startOffset >= FileSizeOf(records) THEN [err |-> Ok, records |-> <<>>]
       ELSE IF at = {} THEN [err |-> ErrIO, records |-> <<>>]
       ELSE [err |-> Ok,
             records |-> SubSeq(records, CHOOSE p \in at : TRUE, Len(records))]

\* SSTable.Get
SSTableGet(sst, key, files) ==
    IF ~BloomContains(sst.bloom, key) THEN [err |-> ErrKeyNotFound]
    ELSE IF sst.fileName \notin DOMAIN files THEN [err |-> ErrIO]
    ELSE LET from == SeekTo(files[sst.fileName], FindOffset(sst.blockIndex, key))
         IN IF from.err # Ok THEN [err |-> ErrIO] ELSE ScanFor(from.records, key)

\* SSTable.GetAllEntries
SSTableGetAllEntries(sst, files) ==
    IF sst.fileName \notin DOMAIN files THEN [err |-> ErrIO, entries |-> <<>>]
    ELSE [err |-> Ok, entries |-> files[sst.fileName]]

(***************************************************************************)
(* CompactionManager (strategy LeveledCompaction, as NewLSMTableService    *)
(* configures it).                                                         *)
(***************************************************************************)
RECURSIVE calculateEntryCount(_)
\* the sum of EntryCount() over the tables
calculateEntryCount(tables) ==
    IF tables = <<>> THEN 0
    ELSE Head(tables).entryCount + calculateEntryCount(Tail(tables))

RECURSIVE calculateTotalSize(_)
calculateTotalSize(tables) ==
    IF tables = <<>> THEN 0
    ELSE Head(tables).fileSize + calculateTotalSize(Tail(tables))

RECURSIVE maxSizeForLevel(_)
maxSizeForLevel(level) ==
    IF level <= 1 THEN maxSizeLevel0
    ELSE maxSizeForLevel(level - 1) * sizeMultiplier

\* shouldCompactLeveled with the budget of a level reached, not exceeded
ShouldCompactAtBudget(levels) ==
    \/ Len(levels[0].elems) >= maxSSTablesLevel0
    \/ \E level \in 1..MaxLevel :
          /\ levels[level].elems # <<>>
          /\ calculateTotalSize(levels[level].elems) >= maxSizeForLevel(level)

\* shouldCompactLeveled; a level without tables has total size 0 and never
\* exceeds its budget
ShouldCompact(levels) ==
    \/ Len(levels[0].elems) >= maxSSTablesLevel0
    \/ \E level \in 1..MaxLevel :
          /\ levels[level].elems # <<>>
          /\ calculateTotalSize(levels[level].elems) > maxSizeForLevel(level)

\* keyRangesOverlap
keyRangesOverlap(min1, max1, min2, max2) ==
    compareKeys(max1, min2) >= 0 /\ compareKeys(max2, min1) >= 0

RECURSIVE MinKeyOf(_)
\* the minKey loop of findOverlappingTables
MinKeyOf(tables) ==
    IF Len(tables) = 1 THEN tables[1].minKey
    ELSE LET rest == MinKeyOf(SubSeq(tables, 1, Len(tables) - 1))
             t == tables[Len(tables)]
         IN IF compareKeys(t.minKey, rest) < 0 THEN t.minKey ELSE rest

RECURSIVE MaxKeyOf(_)
\* the maxKey loop of findOverlappingTables
MaxKeyOf(tables) ==
    IF Len(tables) = 1 THEN tables[1].maxKey
    ELSE LET rest == MaxKeyOf(SubSeq(tables, 1, Len(tables) - 1))
             t == tables[Len(tables)]
         IN IF compareKeys(t.maxKey, rest) > 0 THEN t.maxKey ELSE rest

RECURSIVE FilterOverlapping(_, _, _)
FilterOverlapping(minKey, maxKey, candidateTables) ==
    IF candidateTables = <<>> THEN <<>>
    ELSE LET t == Head(candidateTables)
             rest == FilterOverlapping(minKey, maxKey, Tail(candidateTables))
         IN IF keyRangesOverlap(minKey, maxKey, t.minKey, t.maxKey)
            THEN <<t>> \o rest ELSE rest

findOverlappingTables(inputTables, candidateTables) ==
    IF inputTables = <<>> \/ candidateTables = <<>> THEN <<>>
    ELSE FilterOverlapping(MinKeyOf(inputTables), MaxKeyOf(inputTables), candidateTables)

RECURSIVE InsertByCreatedAt(_, _)
InsertByCreatedAt(sorted, t) ==
    IF sorted = <<>> THEN <<t>>
    ELSE LET last == sorted[Len(sorted)]
         IN IF t.createdAt < last.createdAt
            THEN Append(InsertByCreatedAt(SubSeq(sorted, 1, Len(sorted) - 1), t), last)
            ELSE Append(sorted, t)

RECURSIVE SortByCreatedAt(_)
\* sort.Slice(tables, CreatedAt.Before), in place on the level's slice
SortByCreatedAt(tables) ==
    IF tables = <<>> THEN <<>>
    ELSE InsertByCreatedAt(SortByCreatedAt(SubSeq(tables, 1, Len(tables) - 1)),
                           tables[Len(tables)])

\* The levels over their byte budget, as the loop of selectLeveledCompaction sees them
OversizedLevels(levels) ==
    {level \in 1..(MaxLevel - 1) :
        /\ levels[level].elems # <<>>
        /\ calculateTotalSize(levels[level].elems) > maxSizeForLevel(level)}

NoTask == [nil |-> TRUE]

\* selectLeveledCompaction.  The task's InputSSTables is the slice
\* append(level0Tables, level1Tables...): it shares the backing array of
\* sstablesByLevel[0] (aliased) when the appended tables fit its capacity.
\* levels is the registry after the call (the sort of a deeper level is in place).
SelectCompactionTask(levels) ==
    IF Len(levels[0].elems) >= maxSSTablesLevel0
    THEN LET level0Tables == levels[0].elems
             level1Tables == findOverlappingTables(level0Tables, levels[1].elems)
         IN [nil |-> FALSE,
             InputSSTables |-> level0Tables \o level1Tables,
             aliased |-> Len(level0Tables) + Len(level1Tables) <= levels[0].cap,
             OutputLevel |-> 1,
             CompactionType |-> "MajorCompaction",
             levels |-> levels]
    ELSE IF OversizedLevels(levels) = {} THEN NoTask
    ELSE LET level == CHOOSE l \in OversizedLevels(levels) :
                          \A m \in OversizedLevels(levels) : l <= m
             tables == SortByCreatedAt(levels[level].elems)
             nextLevelTables == findOverlappingTables(<<tables[1]>>, levels[level + 1].elems)
         IN [nil |-> FALSE,
             InputSSTables |-> <<tables[1]>> \o nextLevelTables,
             aliased |-> FALSE,
             OutputLevel |-> level + 1,
             CompactionType |-> "MajorCompaction",
             levels |-> [levels EXCEPT ![level].elems = tables]]

RECURSIVE InsertByKeyNewest(_, _)
\* insertion step for the comparator of ExecuteCompaction:
\* by key, and for one key the newer timestamp first
InsertByKeyNewest(sorted, x) ==
    IF sorted = <<>> THEN <<x>>
    ELSE LET last == sorted[Len(sorted)]
             cmp == Compare(x, last)
             less == IF cmp = 0 THEN IsNewerThan(x, last) ELSE cmp < 0
         IN IF less
            THEN Append(InsertByKeyNewest(SubSeq(sorted, 1, Len(sorted) - 1), x), last)
            ELSE Append(sorted, x)

RECURSIVE SortByKeyNewest(_)
SortByKeyNewest(entries) ==
    IF entries = <<>> THEN <<>>
    ELSE InsertByKeyNewest(SortByKeyNewest(SubSeq(entries, 1, Len(entries) - 1)),
                           entries[Len(entries)])

RECURSIVE DedupFrom(_, _)
DedupFrom(entries, seenKeys) ==
    IF entries = <<>> THEN <<>>
    ELSE LET e == Head(entries)
         IN IF e.key \in seenKeys THEN DedupFrom(Tail(entries), seenKeys)
            ELSE IF IsDeleted(e) THEN DedupFrom(Tail(entries), seenKeys \cup {e.key})
            ELSE <<e>> \o DedupFrom(Tail(entries), seenKeys \cup {e.key})

RECURSIVE DedupKeepingTombstones(_, _)
\* the first entry of every key, tombstones included
DedupKeepingTombstones(entries, seenKeys) ==
    IF entries = <<>> THEN <<>>
    ELSE LET e == Head(entries)
         IN IF e.key \in seenKeys THEN DedupKeepingTombstones(Tail(entries), seenKeys)
            ELSE <<e>> \o DedupKeepingTombstones(Tail(entries), seenKeys \cup {e.key})

removeDuplicatesOnly(entries) == DedupKeepingTombstones(entries, {})

removeDuplicatesAndTombstones(entries) == DedupFrom(entries, {})

RECURSIVE CollectEntries(_, _)
\* the GetAllEntries loop of ExecuteCompaction
CollectEntries(tables, files) ==
    IF tables = <<>> THEN [err |-> Ok, entries |-> <<>>]
    ELSE LET got == SSTableGetAllEntries(Head(tables), files)
             rest == CollectEntries(Tail(tables), files)
         IN IF got.err # Ok THEN [err |-> ErrIO, entries |-> <<>>]
            ELSE IF rest.err # Ok THEN rest
            ELSE [err |-> Ok, entries |-> got.entries \o rest.entries]

\* ExecuteCompaction: the error, the output tables and the directory afterwards.
\* time.Now() is read for the file name (now + 1) and for CreatedAt (now + 2).
ExecuteCompaction(task, files, now) ==
    LET all == CollectEntries(task.InputSSTables, files)
        compactedEntries == removeDuplicatesAndTombstones(SortByKeyNewest(all.entries))
        filename == CompactedFileName(task.OutputLevel, now + 1)
    IN IF task.InputSSTables = <<>> \/ all.err # Ok
       THEN [err |-> ErrIO, outputTables |-> <<>>, files |-> files]
       ELSE IF compactedEntries = <<>>
       THEN [err |-> Ok, outputTables |-> <<>>, files |-> files]
       ELSE [err |-> Ok,
             outputTables |-> <<BuildTable(compactedEntries, task.OutputLevel, filename, now + 2)>>,
             files |-> WriteFile(files, filename, BuildRecords(compactedEntries))]

(***************************************************************************)
(* LSMTableService.  The operations are functions on the record of the     *)
(* service's fields and of the data directory; every public operation runs *)
(* under the service's lock, so it is one step.                            *)
(***************************************************************************)
EmptyLevels == [level \in 0..MaxLevel |-> NilSlice]

\* NewWAL: O_CREATE|O_APPEND keeps the records of an existing file
OpenWAL(files, counter) ==
    IF counter \in DOMAIN files THEN files
    ELSE [c \in (DOMAIN files) \cup {counter} |-> IF c = counter THEN <<>> ELSE files[c]]

\* WAL.WriteEntry followed by the Flush (or Close) that writes the buffer out
WriteEntry(files, counter, entry) ==
    [files EXCEPT ![counter] = Append(@, entry)]

createNewActiveTable(s) ==
    [s EXCEPT !.walFiles = OpenWAL(s.walFiles, s.walCounter),
              !.wal = s.walCounter,
              !.walCounter = s.walCounter + 1,
              !.activeTable = NewMemTable(s.maxTableSize)]

flushImmutableTableInternal(s) ==
    IF s.immutableTables = <<>> THEN s
    ELSE LET immutableTable == Head(s.immutableTables)
             dropped == [s EXCEPT !.immutableTables = Tail(s.immutableTables)]
             entries == MemTableGetAllEntries(immutableTable)
             filename == L0FileName(s.walCounter)
             sstable == BuildTable(entries, 0, filename, s.clock + 1)
             levels == [s.sstablesByLevel EXCEPT ![0] = AppendSlice(@, sstable)]
         IN IF entries = <<>> THEN dropped
            ELSE [dropped EXCEPT
                    !.sstFiles = WriteFile(s.sstFiles, filename, BuildRecords(entries)),
                    !.clock = s.clock + 1,
                    !.sstablesByLevel = levels,
                    !.compactions = IF ShouldCompact(levels) THEN @ + 1 ELSE @]

rotateMemTable(s) ==
    flushImmutableTableInternal(
        createNewActiveTable(
            [s EXCEPT !.immutableTables = Append(@, SetReadOnly(s.activeTable))]))

\* StoreWithRotation without the second attempt: after the rotation the
\* ErrTableFull of the first attempt is returned
StoreWithoutRetry(s, e) ==
    LET first == [e EXCEPT !.timestamp = s.clock + 1]
        err1 == MemTableErr(s.activeTable, e.key)
        t1 == [s EXCEPT !.clock = @ + 1]
    IN IF err1 = Ok
       THEN [err |-> Ok, s |-> [t1 EXCEPT !.activeTable = MemTableStore(@, first)]]
       ELSE IF err1 # ErrTableFull
       THEN [err |-> err1, s |-> s]
       ELSE [err |-> err1, s |-> rotateMemTable(t1)]

\* The memtable half of Put, Delete and of the replay loop of Recovery:
\* store, and on ErrTableFull rotate and store again.  e is the entry to store
\* without its timestamp, which MemTable.Put/Delete take from time.Now().
StoreWithRotation(s, e) ==
    LET first == [e EXCEPT !.timestamp = s.clock + 1]
        err1 == MemTableErr(s.activeTable, e.key)
        t1 == [s EXCEPT !.clock = @ + 1]
        rotated == rotateMemTable(t1)
        second == [e EXCEPT !.timestamp = rotated.clock + 1]
        err2 == MemTableErr(rotated.activeTable, e.key)
    IN IF err1 = Ok
       THEN [err |-> Ok, s |-> [t1 EXCEPT !.activeTable = MemTableStore(@, first)]]
       ELSE IF err1 # ErrTableFull
       THEN [err |-> err1, s |-> s]
       ELSE [err |-> err2,
             s |-> [rotated EXCEPT !.clock = @ + 1,
                                   !.activeTable = MemTableStore(@, second)]]

\* LSMTableService.Put / Delete for the entry e (NewPutEntry or NewDeleteEntry)
WriteOp(s, e) ==
    LET logged == [s EXCEPT !.clock = @ + 1,
                            !.walFiles = WriteEntry(@, s.wal,
                                            [e EXCEPT !.timestamp = s.clock + 1])]
    IN StoreWithRotation(logged, e)

ServicePut(s, key, value) == WriteOp(s, NewPutEntry(key, value, 0))

ServiceDelete(s, key) == WriteOp(s, NewDeleteEntry(key, 0))

\* Results of a lookup: a value, ErrKeyNotFound, or (inside Get) "this layer
\* does not hold the key"
NotFound == [err |-> ErrKeyNotFound, value |-> NoValue]

Found(value) == [err |-> Ok, value |-> value]

Miss == [err |-> "miss", value |-> NoValue]

\* what Get answers from an entry
Answer(entry) == IF IsDeleted(entry) THEN NotFound ELSE Found(entry.value)

RECURSIVE GetFromMemTables(_, _, _)
\* immutable memtables i, i-1, ..., 1; "miss" when none holds the key
GetFromMemTables(tables, i, key) ==
    IF i = 0 THEN Miss
    ELSE IF MemHas(tables[i], key) THEN Answer(tables[i].entries[key])
    ELSE GetFromMemTables(tables, i - 1, key)

RECURSIVE GetFromTablesOldestFirst(_, _, _, _)
\* the loop over one level running from index 0 upwards
GetFromTablesOldestFirst(tables, i, key, files) ==
    IF i = 0 THEN Miss
    ELSE LET got == SSTableGet(tables[Len(tables) + 1 - i], key, files)
         IN IF got.err = Ok THEN Answer(got.entry)
            ELSE GetFromTablesOldestFirst(tables, i - 1, key, files)

RECURSIVE GetFromTables(_, _, _, _)
\* tables i, i-1, ..., 1 of one level; a table whose Get fails is passed over
GetFromTables(tables, i, key, files) ==
    IF i = 0 THEN Miss
    ELSE LET got == SSTableGet(tables[i], key, files)
         IN IF got.err = Ok THEN Answer(got.entry)
            ELSE GetFromTables(tables, i - 1, key, files)

RECURSIVE GetFromLevels(_, _, _)
GetFromLevels(s, level, key) ==
    IF level >= MaxLevel THEN NotFound
    ELSE LET tables == s.sstablesByLevel[level].elems
             got == GetFromTables(tables, Len(tables), key, s.sstFiles)
         IN IF got # Miss THEN got ELSE GetFromLevels(s, level + 1, key)

\* LSMTableService.Get: the value, or ErrKeyNotFound
ServiceGet(s, key) ==
    IF MemHas(s.activeTable, key) THEN Answer(s.activeTable.entries[key])
    ELSE LET got == GetFromMemTables(s.immutableTables, Len(s.immutableTables), key)
         IN IF got # Miss THEN got ELSE GetFromLevels(s, 0, key)

RECURSIVE IndexOf(_, _, _)
\* the first position i..Len(tables) holding table t, or 0
IndexOf(tables, t, i) ==
    IF i > Len(tables) THEN 0
    ELSE IF tables[i] = t THEN i
    ELSE IndexOf(tables, t, i + 1)

RECURSIVE RetireInputs(_, _, _, _, _)
\* The first loop of updateSSTablesAfterCompaction, from position j of
\* task.InputSSTables.  arr is the backing array the range loop reads: when the
\* task's slice is aliased to sstablesByLevel[0], removing position i from level 0
\* (append(tables[:i], tables[i+1:]...)) moves the array's elements i+1..m one
\* place left under the loop.
RetireInputs(arr, aliased, j, levels, files) ==
    IF j > Len(arr) THEN [levels |-> levels, files |-> files]
    ELSE LET inputTable == arr[j]
             level == inputTable.level
             tables == levels[level].elems
             i == IndexOf(tables, inputTable, 1)
             m == Len(tables)
             newLevels == IF i = 0 THEN levels
                          ELSE [levels EXCEPT ![level] = RemoveAt(@, i)]
             newArr == IF i # 0 /\ aliased /\ level = 0
                       THEN [p \in 1..Len(arr) |->
                               IF p >= i /\ p < m THEN arr[p + 1] ELSE arr[p]]
                       ELSE arr
         IN RetireInputs(newArr, aliased, j + 1, newLevels,
                         RemoveFile(files, inputTable.fileName))

RECURSIVE AddOutputsToLevel0(_, _)
\* the second loop appending every output to the list of level 0
AddOutputsToLevel0(outputTables, levels) ==
    IF outputTables = <<>> THEN levels
    ELSE AddOutputsToLevel0(Tail(outputTables),
                            [levels EXCEPT ![0] = AppendSlice(@, Head(outputTables))])

RECURSIVE AddOutputs(_, _)
AddOutputs(outputTables, levels) ==
    IF outputTables = <<>> THEN levels
    ELSE AddOutputs(Tail(outputTables),
                    [levels EXCEPT ![Head(outputTables).level] =
                        AppendSlice(@, Head(outputTables))])

updateSSTablesAfterCompaction(task, outputTables, levels, files) ==
    LET retired == RetireInputs(task.InputSSTables, task.aliased, 1, levels, files)
    IN [levels |-> AddOutputs(outputTables, retired.levels), files |-> retired.files]

\* runCompaction going on to updateSSTablesAfterCompaction whatever
\* ExecuteCompaction returned
runCompactionIgnoringError(s) ==
    LET task == SelectCompactionTask(s.sstablesByLevel)
        done == ExecuteCompaction(task, s.sstFiles, s.clock)
        upd == updateSSTablesAfterCompaction(task, done.outputTables, task.levels, done.files)
    IN IF task.nil THEN s
       ELSE [s EXCEPT !.sstablesByLevel = upd.levels,
                      !.sstFiles = upd.files,
                      !.clock = IF done.outputTables = <<>> THEN @ ELSE @ + 2]

\* LSMTableService.runCompaction, one run of the goroutine under the lock
runCompaction(s) ==
    LET task == SelectCompactionTask(s.sstablesByLevel)
        done == ExecuteCompaction(task, s.sstFiles, s.clock)
        upd == updateSSTablesAfterCompaction(task, done.outputTables, task.levels, done.files)
    IN IF task.nil THEN s
       ELSE IF done.err # Ok THEN [s EXCEPT !.sstablesByLevel = task.levels]
       ELSE [s EXCEPT !.sstablesByLevel = upd.levels,
                      !.sstFiles = upd.files,
                      !.clock = IF done.outputTables = <<>> THEN @ ELSE @ + 2]

RECURSIVE FlushAll(_)
\* the loop of Close
FlushAll(s) ==
    IF s.immutableTables = <<>> THEN s ELSE FlushAll(flushImmutableTableInternal(s))

ServiceClose(s) == FlushAll(s)

RECURSIVE Replay(_, _)
\* the replay loop of Recovery over the records WAL.Recover returned
Replay(s, entries) ==
    IF entries = <<>> THEN [err |-> Ok, s |-> s]
    ELSE LET r == StoreWithRotation(s, Head(entries))
         IN IF r.err # Ok THEN r ELSE Replay(r.s, Tail(entries))

\* loadExistingSSTables: lists the directory and registers nothing
loadExistingSSTables(s) == s

\* LSMTableService.Recovery: s.wal.Recover() reads the file of the open WAL
ServiceRecovery(s) == Replay(loadExistingSSTables(s), s.walFiles[s.wal])

\* NewLSMTableService on a data directory
NewLSMTableService(walDir, sstDir, size, now) ==
    createNewActiveTable(
        [maxTableSize |-> size,
         activeTable |-> NewMemTable(size),
         immutableTables |-> <<>>,
         sstablesByLevel |-> EmptyLevels,
         wal |-> 0,
         walCounter |-> 0,
         walFiles |-> walDir,
         sstFiles |-> sstDir,
         compactions |-> 0,
         clock |-> now])

GetMemTableStats(s) == <<s.activeTable.size, Len(s.immutableTables)>>

GetSSTableStats(s) == [level \in 0..MaxLevel |-> Len(s.sstablesByLevel[level].elems)]

(***************************************************************************)
(* The state machine.                                                      *)
(***************************************************************************)
Cur ==
    [maxTableSize |-> maxTableSize,
     activeTable |-> activeTable,
     immutableTables |-> immutableTables,
     sstablesByLevel |-> sstablesByLevel,
     wal |-> wal,
     walCounter |-> walCounter,
     walFiles |-> walFiles,
     sstFiles |-> sstFiles,
     compactions |-> compactions,
     clock |-> clock]

Install(s) ==
    /\ maxTableSize' = s.maxTableSize
    /\ activeTable' = s.activeTable
    /\ immutableTables' = s.immutableTables
    /\ sstablesByLevel' = s.sstablesByLevel
    /\ wal' = s.wal
    /\ walCounter' = s.walCounter
    /\ walFiles' = s.walFiles
    /\ sstFiles' = s.sstFiles
    /\ compactions' = s.compactions
    /\ clock' = s.clock

Unknown == [err |-> "unknown", value |-> NoValue]

NoBuild == [done |-> FALSE]

NoRecover == [done |-> FALSE]

NoMemTable == [maxSize |-> -1]

NoCall == [op |-> "none"]

NoBloom == [size |-> -1]

\* the objects exercised on their own, before anything is done to them
InitUnits ==
    /\ walBuffer = <<>>
    /\ walDisk = <<>>
    /\ walWritten = <<>>
    /\ walFlushed = 0
    /\ walTorn = 0
    /\ walOpen = TRUE
    /\ walRecovered = NoRecover
    /\ memTable = NoMemTable
    /\ memCall = NoCall
    /\ memClock = 0
    /\ bloom = NoBloom
    /\ bloomAdded = {}
    /\ bloomOps = 0
    /\ bloomPanic = FALSE
    /\ blockIndex = NewBlockIndex
    /\ compBuilder = <<>>
    /\ compInputs = <<>>
    /\ compFiles = <<>>
    /\ compPhase = "adding"
    /\ compResult = NoCall
    /\ mu = "free"
    /\ pc = "idle"
    /\ req = NoCall
    /\ pending = <<>>
    /\ flushingTable = NoMemTable
    /\ bgPc = "idle"
    /\ bgTask = NoTask
    /\ bgDone = <<>>
    /\ seen = NoCall
    /\ diskFails = FALSE
    /\ walErr = FALSE
    /\ buildFails = FALSE
    /\ fnCall = NoCall

InitWith(sizes, ops) ==
    /\ \E size \in sizes :
          LET s == NewLSMTableService(<<>>, <<>>, size, 0)
          IN /\ maxTableSize = s.maxTableSize
             /\ activeTable = s.activeTable
             /\ immutableTables = s.immutableTables
             /\ sstablesByLevel = s.sstablesByLevel
             /\ wal = s.wal
             /\ walCounter = s.walCounter
             /\ walFiles = s.walFiles
             /\ sstFiles = s.sstFiles
             /\ compactions = s.compactions
             /\ clock = s.clock
    /\ phase = "running"
    /\ fresh = TRUE
    /\ recoveries = 0
    /\ budget = ops
    /\ lastErr = Ok
    /\ restarts = 0
    /\ expected = [k \in AllKeys |-> Unknown]
    /\ beforeClose = [k \in AllKeys |-> Unknown]
    /\ builder = <<>>
    /\ built = NoBuild
    /\ InitUnits

Init == InitWith(0..MaxTableSize, MaxOps)

Put(key, value) ==
    /\ phase = "running"
    /\ budget > 0
    /\ LET r == ServicePut(Cur, key, value)
       IN /\ Install(r.s)
          /\ lastErr' = r.err
          /\ expected' = IF r.err = Ok THEN [expected EXCEPT ![key] = Found(value)]
                         ELSE expected
    /\ budget' = budget - 1
    /\ fresh' = FALSE
    /\ UNCHANGED <<phase, recoveries, restarts, beforeClose, builder, built>>
    /\ UNCHANGED unitVars

Delete(key) ==
    /\ phase = "running"
    /\ budget > 0
    /\ LET r == ServiceDelete(Cur, key)
       IN /\ Install(r.s)
          /\ lastErr' = r.err
          /\ expected' = IF r.err = Ok THEN [expected EXCEPT ![key] = NotFound]
                         ELSE expected
    /\ budget' = budget - 1
    /\ fresh' = FALSE
    /\ UNCHANGED <<phase, recoveries, restarts, beforeClose, builder, built>>
    /\ UNCHANGED unitVars

\* one runCompaction goroutine gets the lock
RunCompaction ==
    /\ compactions > 0
    /\ Install([runCompaction(Cur) EXCEPT !.compactions = @ - 1])
    /\ UNCHANGED <<phase, fresh, recoveries, budget, lastErr, restarts, expected,
                   beforeClose, builder, built>>
    /\ UNCHANGED unitVars

Close ==
    /\ phase = "running"
    /\ Install(ServiceClose(Cur))
    /\ phase' = "closed"
    /\ beforeClose' = [k \in AllKeys |-> ServiceGet(Cur, k)]
    /\ UNCHANGED <<fresh, recoveries, budget, lastErr, restarts, expected, builder, built>>
    /\ UNCHANGED unitVars

\* the process ends and a new one calls NewLSMTableService on the same directory
Restart ==
    /\ phase = "closed"
    /\ restarts < MaxRestarts
    /\ Install(NewLSMTableService(walFiles, sstFiles, maxTableSize, clock))
    /\ phase' = "running"
    /\ fresh' = TRUE
    /\ recoveries' = 0
    /\ lastErr' = Ok
    /\ restarts' = restarts + 1
    /\ expected' = [k \in AllKeys |-> Unknown]
    /\ UNCHANGED <<budget, beforeClose, builder, built>>
    /\ UNCHANGED unitVars

\* Recovery is called on a service that has served no Put or Delete yet
Recovery ==
    /\ phase = "running"
    /\ fresh
    /\ recoveries < MaxRecoveries
    /\ LET r == ServiceRecovery(Cur)
       IN /\ Install(r.s)
          /\ lastErr' = r.err
    /\ recoveries' = recoveries + 1
    /\ UNCHANGED <<phase, fresh, budget, restarts, expected, beforeClose, builder, built>>
    /\ UNCHANGED unitVars

\* One process: clients call Put and Delete, compactions run in the background,
\* and the service is closed.
Next ==
    \/ \E key \in Keys, value \in Values : Put(key, value)
    \/ \E key \in Keys : Delete(key)
    \/ RunCompaction
    \/ Close

Spec == Init /\ [][Next]_vars

\* Several processes, one after the other, on one data directory.
InitRestart == InitWith(0..MaxTableSize, MaxOpsRestart)

NextRestart ==
    \/ \E key \in Keys, value \in Values : Put(key, value)
    \/ \E key \in Keys : Delete(key)
    \/ Close
    \/ Restart
    \/ Recovery

SpecRestart == InitRestart /\ [][NextRestart]_vars

\* One process whose clients put keys of different lengths.
InitMixed == InitWith(1..MaxTableSize, MaxOpsMixed)

NextMixed ==
    \/ \E key \in MixedKeys : Put(key, <<1>>)
    \/ RunCompaction

SpecMixed == InitMixed /\ [][NextMixed]_vars

(***************************************************************************)
(* An SSTableBuilder on its own: entries are added in any order, with any   *)
(* timestamps, and Build is called once.                                    *)
(***************************************************************************)
Stamps == 1..MaxBuildLen

BuilderEntries ==
    {NewPutEntry(key, <<1>>, ts) : key \in MixedKeys, ts \in Stamps}
        \cup {NewDeleteEntry(key, ts) : key \in MixedKeys, ts \in Stamps}

BuildFileName == L0FileName(0)

ErrNoEntries == "cannot build SSTable with no entries"

InitBuild == InitWith({MaxTableSize}, 0)

\* SSTableBuilder.AddEntry
AddEntryUnbounded(entry) ==
    /\ ~built.done
    /\ builder' = Append(builder, entry)
    /\ UNCHANGED <<maxTableSize, activeTable, immutableTables, sstablesByLevel, wal,
                   walCounter, walFiles, sstFiles, compactions, clock, phase, fresh,
                   recoveries, budget, lastErr, restarts, expected, beforeClose, built>>
    /\ UNCHANGED unitVars

AddEntry(entry) ==
    /\ Len(builder) < MaxBuildLen
    /\ AddEntryUnbounded(entry)

\* SSTableBuilder.Build: no entries is an error; otherwise builder.entries is
\* sorted in place, the file is written and the table is returned
Build ==
    /\ ~built.done
    /\ IF builder = <<>>
       THEN /\ built' = [done |-> TRUE, err |-> ErrNoEntries]
            /\ UNCHANGED <<builder, sstFiles, clock>>
       ELSE LET sst == BuildTable(builder, 0, BuildFileName, clock)
                records == BuildRecords(builder)
            IN /\ builder' = records
               /\ sstFiles' = WriteFile(sstFiles, BuildFileName, records)
               /\ built' = [done |-> TRUE, err |-> Ok, sst |-> sst, added |-> builder]
               /\ clock' = clock + 1
    /\ UNCHANGED <<maxTableSize, activeTable, immutableTables, sstablesByLevel, wal,
                   walCounter, walFiles, compactions, phase, fresh, recoveries,
                   budget, lastErr, restarts, expected, beforeClose>>
    /\ UNCHANGED unitVars

NextBuild ==
    \/ \E entry \in BuilderEntries : AddEntry(entry)
    \/ Build

SpecBuild == InitBuild /\ [][NextBuild]_vars

(***************************************************************************)
(* An SSTableBuilder given distinct keys in ascending or in descending     *)
(* order, more of them than one block of the block index holds; every      *)
(* third entry is a DELETE.                                                *)
(***************************************************************************)
MaxIndexedLen == MaxBlocks * blockSize + 1

\* two-byte keys; the built tables hold keys of even number only
ProbeKey(i) == <<i \div 256, i % 256>>

IndexedEntry(i) ==
    IF i % 3 = 0 THEN NewDeleteEntry(ProbeKey(2 * i), i)
    ELSE NewPutEntry(ProbeKey(2 * i), <<i % 256>>, i)

AscendingSoFar == \A i \in 1..Len(builder) : builder[i] = IndexedEntry(i)

DescendingSoFar ==
    \A i \in 1..Len(builder) : builder[i] = IndexedEntry(MaxIndexedLen + 1 - i)

\* the table lengths at which Build is called: around every block boundary
IndexedLens ==
    {n \in 1..MaxIndexedLen : n % blockSize <= 1 \/ n % blockSize = blockSize - 1}

InitIndexed == InitWith({MaxTableSize}, 0)

\* SSTableBuilder.AddEntry with the next key of the order in use
AddIndexed ==
    /\ Len(builder) < MaxIndexedLen
    /\ \/ AscendingSoFar /\ AddEntryUnbounded(IndexedEntry(Len(builder) + 1))
       \/ DescendingSoFar /\ AddEntryUnbounded(IndexedEntry(MaxIndexedLen - Len(builder)))

BuildIndexed ==
    /\ Len(builder) \in IndexedLens
    /\ Build

NextIndexed ==
    \/ AddIndexed
    \/ BuildIndexed

SpecIndexed == InitIndexed /\ [][NextIndexed]_vars

(***************************************************************************)
(* The WAL file byte by byte: WriteEntry lays a record out in the          *)
(* bufio.Writer, Flush and Close hand the buffer to the file, Recover      *)
(* reads the file back with readEntry.  The buffer of bufio.Writer (4096   *)
(* bytes) is never filled by the records written here.                     *)
(***************************************************************************)
ErrEOF == "EOF"
ErrUnexpectedEOF == "unexpected EOF"
ErrClosed == "file already closed"

RECURSIVE LittleEndian(_, _)
\* binary.Write(w, binary.LittleEndian, n) for an integer of width bytes
LittleEndian(n, width) ==
    IF width = 0 THEN <<>>
    ELSE <<n % 256>> \o LittleEndian(n \div 256, width - 1)

RECURSIVE FromLittleEndian(_)
\* the integer binary.Read(r, binary.LittleEndian, &n) stores for these bytes
FromLittleEndian(bytes) ==
    IF bytes = <<>> THEN 0
    ELSE Head(bytes) + 256 * FromLittleEndian(Tail(bytes))

\* uint8(entry.entryType)
EntryTypeByte(entryType) == IF entryType = "PUT" THEN 0 ELSE 1

\* EntryType(entryType): a byte that names no kind stays as it is
EntryTypeOf(byte) ==
    IF byte = 0 THEN "PUT" ELSE IF byte = 1 THEN "DELETE" ELSE byte

\* a record with the value laid out before the key
WalRecordValueFirst(entry) ==
    LittleEndian(Len(entry.value), 4) \o entry.value
        \o LittleEndian(Len(entry.key), 4) \o entry.key
        \o <<EntryTypeByte(entry.entryType)>>
        \o LittleEndian(entry.timestamp, 8)

\* the bytes WAL.WriteEntry hands to the writer:
\* [keyLen][key][valueLen][value][entryType][timestamp]
WalRecord(entry) ==
    LittleEndian(Len(entry.key), 4) \o entry.key
        \o LittleEndian(Len(entry.value), 4) \o entry.value
        \o <<EntryTypeByte(entry.entryType)>>
        \o LittleEndian(entry.timestamp, 8)

RECURSIVE WalRecords(_)
WalRecords(entries) ==
    IF entries = <<>> THEN <<>>
    ELSE WalRecord(Head(entries)) \o WalRecords(Tail(entries))

\* io.ReadFull(reader, buf) with len(buf) = n: nothing is read for n = 0, io.EOF
\* when no byte is left, io.ErrUnexpectedEOF when fewer than n bytes are left
ReadFull(bytes, n) ==
    IF n = 0 THEN [err |-> Ok, data |-> <<>>, rest |-> bytes]
    ELSE IF bytes = <<>> THEN [err |-> ErrEOF]
    ELSE IF Len(bytes) < n THEN [err |-> ErrUnexpectedEOF]
    ELSE [err |-> Ok, data |-> SubSeq(bytes, 1, n), rest |-> SubSeq(bytes, n + 1, Len(bytes))]

\* WAL.readEntry: the entry at the head of bytes and the bytes after it, or the
\* error of the first read that fails
readEntry(bytes) ==
    LET keyLen == ReadFull(bytes, 4) IN
    IF keyLen.err # Ok THEN [err |-> keyLen.err] ELSE
    LET key == ReadFull(keyLen.rest, FromLittleEndian(keyLen.data)) IN
    IF key.err # Ok THEN [err |-> key.err] ELSE
    LET valueLen == ReadFull(key.rest, 4) IN
    IF valueLen.err # Ok THEN [err |-> valueLen.err] ELSE
    LET value == ReadFull(valueLen.rest, FromLittleEndian(valueLen.data)) IN
    IF value.err # Ok THEN [err |-> value.err] ELSE
    LET entryType == ReadFull(value.rest, 1) IN
    IF entryType.err # Ok THEN [err |-> entryType.err] ELSE
    LET timestampNano == ReadFull(entryType.rest, 8) IN
    IF timestampNano.err # Ok THEN [err |-> timestampNano.err] ELSE
    [err |-> Ok,
     entry |-> [key |-> key.data, value |-> value.data,
                entryType |-> EntryTypeOf(entryType.data[1]),
                timestamp |-> FromLittleEndian(timestampNano.data)],
     rest |-> timestampNano.rest]

RECURSIVE RecoverLoop(_, _)
\* the read loop of WAL.Recover: io.EOF ends it, any other error is returned
\* in place of the entries
RecoverLoop(bytes, entries) ==
    LET r == readEntry(bytes)
    IN IF r.err = ErrEOF THEN [err |-> Ok, entries |-> entries]
       ELSE IF r.err # Ok THEN [err |-> r.err, entries |-> <<>>]
       ELSE RecoverLoop(r.rest, Append(entries, r.entry))

WalKeys == {<<>>, KeyAA}
WalValues == {<<>>, <<9>>}

\* time.Now() of the n-th WriteEntry, in nanoseconds: more than one byte long
WalStamp(n) == 1000 * n

WalEntries(n) ==
    {NewPutEntry(key, value, WalStamp(n)) : key \in WalKeys, value \in WalValues}
        \cup {NewDeleteEntry(key, WalStamp(n)) : key \in WalKeys}

\* WAL.WriteEntry on a WAL that NewWAL created on a new file
WALWriteEntry(entry) ==
    /\ walOpen
    /\ walTorn = 0
    /\ Len(walWritten) < MaxWalLen
    /\ walBuffer' = walBuffer \o WalRecord(entry)
    /\ walWritten' = Append(walWritten, entry)
    /\ UNCHANGED <<walDisk, walFlushed, walTorn, walOpen, walRecovered>>
    /\ UNCHANGED notWalVars

\* WAL.Flush
WALFlush ==
    /\ walOpen
    /\ walTorn = 0
    /\ walDisk' = walDisk \o walBuffer
    /\ walBuffer' = <<>>
    /\ walFlushed' = Len(walWritten)
    /\ UNCHANGED <<walWritten, walTorn, walOpen, walRecovered>>
    /\ UNCHANGED notWalVars

\* WAL.Recover: Close (which flushes), read the whole file, reopen it for
\* appending.  A read error leaves WAL.file closed, and Close fails on it.
WALRecover ==
    /\ IF ~walOpen
       THEN /\ walRecovered' = [done |-> TRUE, err |-> ErrClosed, entries |-> <<>>,
                                written |-> walWritten, flushed |-> walFlushed,
                                file |-> walDisk]
            /\ UNCHANGED <<walBuffer, walDisk, walOpen>>
       ELSE LET file == walDisk \o walBuffer
                r == RecoverLoop(file, <<>>)
            IN /\ walDisk' = file
               /\ walBuffer' = <<>>
               /\ walOpen' = (r.err = Ok)
               /\ walRecovered' = [done |-> TRUE, err |-> r.err, entries |-> r.entries,
                                   written |-> walWritten, flushed |-> walFlushed,
                                   file |-> file]
    /\ UNCHANGED <<walWritten, walFlushed, walTorn>>
    /\ UNCHANGED notWalVars

\* The process dies while the file is being written: the buffer is lost, the
\* file keeps a proper prefix of its bytes, and NewWAL opens it again.
Tear(n) ==
    /\ walTorn = 0
    /\ n \in 1..Len(walDisk)
    /\ walDisk' = SubSeq(walDisk, 1, Len(walDisk) - n)
    /\ walBuffer' = <<>>
    /\ walTorn' = n
    /\ walOpen' = TRUE
    /\ UNCHANGED <<walWritten, walFlushed, walRecovered>>
    /\ UNCHANGED notWalVars

InitWAL == InitWith({MaxTableSize}, 0)

NextWAL ==
    \/ \E entry \in WalEntries(Len(walWritten) + 1) : WALWriteEntry(entry)
    \/ WALFlush
    \/ WALRecover

SpecWAL == InitWAL /\ [][NextWAL]_vars

NextWALTorn ==
    \/ NextWAL
    \/ \E n \in 1..Len(walDisk) : Tear(n)

SpecWALTorn == InitWAL /\ [][NextWALTorn]_vars

(***************************************************************************)
(* A MemTable on its own: NewMemTable with any capacity, then Put, Delete  *)
(* and SetReadOnly calls in any order.                                     *)
(***************************************************************************)
MemCapacities == 0..MaxTableSize

\* NewMemTable(maxSize)
MemNew(maxSize) ==
    /\ memTable = NoMemTable
    /\ memTable' = NewMemTable(maxSize)
    /\ UNCHANGED <<memCall, memClock>>
    /\ UNCHANGED notMemVars

\* MemTable.Put and MemTable.Delete: entry is what NewPutEntry / NewDeleteEntry made
MemCall(op, entry) ==
    /\ memTable # NoMemTable
    /\ memClock < MaxMemOps
    /\ memTable' = MemTableStore(memTable, entry)
    /\ memCall' = [op |-> op, key |-> entry.key, entry |-> entry,
                   err |-> MemTableErr(memTable, entry.key), before |-> memTable]
    /\ memClock' = memClock + 1
    /\ UNCHANGED notMemVars

MemPut(key, value) == MemCall("Put", NewPutEntry(key, value, memClock + 1))

MemDelete(key) == MemCall("Delete", NewDeleteEntry(key, memClock + 1))

\* MemTable.SetReadOnly
MemSetReadOnly ==
    /\ memTable # NoMemTable
    /\ memClock < MaxMemOps
    /\ memTable' = SetReadOnly(memTable)
    /\ memCall' = [op |-> "SetReadOnly", before |-> memTable]
    /\ memClock' = memClock + 1
    /\ UNCHANGED notMemVars

InitMemTable == InitWith({MaxTableSize}, 0)

NextMemTable ==
    \/ \E maxSize \in MemCapacities : MemNew(maxSize)
    \/ \E key \in MixedKeys, value \in Values : MemPut(key, value)
    \/ \E key \in MixedKeys : MemDelete(key)
    \/ MemSetReadOnly

SpecMemTable == InitMemTable /\ [][NextMemTable]_vars

(***************************************************************************)
(* A BloomFilter on its own: NewBloomFilter(capacity, 0.01), then Add and  *)
(* Reset calls in any order.  A filter of capacity 0 has no bits, and Add  *)
(* panics on it.                                                           *)
(***************************************************************************)
BloomCapacities == 0..MaxBloomCapacity

BloomKeys == AllKeys \cup {<<>>, <<255, 255>>}

BfNew(capacity) ==
    /\ bloom = NoBloom
    /\ bloom' = NewBloomFilter(capacity)
    /\ UNCHANGED <<bloomAdded, bloomOps, bloomPanic>>
    /\ UNCHANGED notBloomVars

BfAdd(key) ==
    /\ bloom # NoBloom
    /\ ~bloomPanic
    /\ bloomOps < MaxBloomOps
    /\ IF BloomAddPanics(bloom)
       THEN /\ bloomPanic' = TRUE
            /\ UNCHANGED <<bloom, bloomAdded>>
       ELSE /\ bloom' = BloomAdd(bloom, key)
            /\ bloomAdded' = bloomAdded \cup {key}
            /\ UNCHANGED bloomPanic
    /\ bloomOps' = bloomOps + 1
    /\ UNCHANGED notBloomVars

BfReset ==
    /\ bloom # NoBloom
    /\ ~bloomPanic
    /\ bloomOps < MaxBloomOps
    /\ bloom' = BloomReset(bloom)
    /\ bloomAdded' = {}
    /\ bloomOps' = bloomOps + 1
    /\ UNCHANGED bloomPanic
    /\ UNCHANGED notBloomVars

InitBloom == InitWith({MaxTableSize}, 0)

NextBloom ==
    \/ \E capacity \in BloomCapacities : BfNew(capacity)
    \/ \E key \in BloomKeys : BfAdd(key)
    \/ BfReset

SpecBloom == InitBloom /\ [][NextBloom]_vars

(***************************************************************************)
(* A BlockIndex on its own: AddEntry calls with keys in ascending order    *)
(* (a key may repeat) and any offsets.                                     *)
(***************************************************************************)
IndexKeys == {<<1>>, <<1, 1>>, <<2>>, <<2, 0>>, <<3>>}

\* the keys looked up: the indexed ones, keys between them, below and above
IndexTargets == IndexKeys \cup {<<>>, <<0>>, <<1, 0>>, <<2, 0, 0>>, <<4>>}

IndexOffsets == {0, 20, 41}

\* BlockIndex.AddEntry with a key not below the last one
IdxAddEntry(key, offset) ==
    /\ Len(blockIndex) < MaxIndexLen
    /\ blockIndex # <<>> => BytesCompare(blockIndex[Len(blockIndex)].Key, key) <= 0
    /\ blockIndex' = IndexAddEntry(blockIndex, key, offset)
    /\ UNCHANGED notIndexVars

InitBlockIndex == InitWith({MaxTableSize}, 0)

NextBlockIndex == \E key \in IndexKeys, offset \in IndexOffsets : IdxAddEntry(key, offset)

SpecBlockIndex == InitBlockIndex /\ [][NextBlockIndex]_vars

(***************************************************************************)
(* CompactionManager.ExecuteCompaction on its own: input tables are built  *)
(* by SSTableBuilders from entries of any key, kind and timestamp (a key   *)
(* may repeat within a table, timestamps may tie), MaxTableSize entries to *)
(* a table and the rest to a last one, and are compacted into level 1.     *)
(***************************************************************************)
CompKeys == {KeyA, KeyAA}

CompStamps == {1, 2}

\* entries added so far to the input tables and to the builder
CompAdded == Len(compBuilder) + calculateEntryCount(compInputs)

\* the n-th entry added: its value tells the versions of a key apart
CompEntries(n) ==
    {NewPutEntry(key, <<n>>, ts) : key \in CompKeys, ts \in CompStamps}
        \cup {NewDeleteEntry(key, ts) : key \in CompKeys, ts \in CompStamps}

\* SSTableBuilder.AddEntry on the builder of the next input table
CompAddEntry(entry) ==
    /\ compPhase = "adding"
    /\ CompAdded < MaxCompEntries
    /\ Len(compBuilder) < MaxTableSize
    /\ compBuilder' = Append(compBuilder, entry)
    /\ UNCHANGED <<compInputs, compFiles, compPhase, compResult>>
    /\ UNCHANGED notCompVars

\* SSTableBuilder.Build of an input table; a table shorter than MaxTableSize
\* is the last one
CompBuild ==
    /\ compPhase = "adding"
    /\ compBuilder # <<>>
    /\ LET fileName == L0FileName(Len(compInputs))
       IN /\ compInputs' = Append(compInputs,
                                  BuildTable(compBuilder, 0, fileName, Len(compInputs)))
          /\ compFiles' = WriteFile(compFiles, fileName, BuildRecords(compBuilder))
    /\ compBuilder' = <<>>
    /\ compPhase' = IF Len(compBuilder) < MaxTableSize THEN "closed" ELSE "adding"
    /\ UNCHANGED compResult
    /\ UNCHANGED notCompVars

\* CompactionManager.ExecuteCompaction with the tables built as the task's input
CompExecute ==
    /\ compPhase # "done"
    /\ compBuilder = <<>>
    /\ LET task == [InputSSTables |-> compInputs, OutputLevel |-> 1]
           r == ExecuteCompaction(task, compFiles, Len(compInputs))
       IN /\ compResult' = [op |-> "ExecuteCompaction", err |-> r.err,
                            outputTables |-> r.outputTables]
          /\ compFiles' = r.files
    /\ compPhase' = "done"
    /\ UNCHANGED <<compBuilder, compInputs>>
    /\ UNCHANGED notCompVars

InitCompaction == InitWith({MaxTableSize}, 0)

NextCompaction ==
    \/ \E entry \in CompEntries(CompAdded + 1) : CompAddEntry(entry)
    \/ CompBuild
    \/ CompExecute

SpecCompaction == InitCompaction /\ [][NextCompaction]_vars

(***************************************************************************)
(* One process whose data directory loses a file: the file of one          *)
(* registered SSTable can no longer be opened.                             *)
(***************************************************************************)
\* os.Open of the file fails from now on; no other file is lost in the behaviour
FileLost(name) ==
    /\ phase = "running"
    /\ name \in DOMAIN sstFiles
    /\ \A level \in 0..MaxLevel : \A i \in 1..Len(sstablesByLevel[level].elems) :
          sstablesByLevel[level].elems[i].fileName \in DOMAIN sstFiles
    /\ sstFiles' = RemoveFile(sstFiles, name)
    /\ UNCHANGED <<maxTableSize, activeTable, immutableTables, sstablesByLevel, wal,
                   walCounter, walFiles, compactions, clock, phase, fresh, recoveries,
                   budget, lastErr, restarts, expected, beforeClose, builder, built>>
    /\ UNCHANGED unitVars

InitFault == InitWith(1..MaxTableSize, MaxOpsFault)

NextFault ==
    \/ \E key \in Keys, value \in Values : Put(key, value)
    \/ \E key \in Keys : Delete(key)
    \/ \E name \in DOMAIN sstFiles : FileLost(name)

SpecFault == InitFault /\ [][NextFault]_vars

(***************************************************************************)
(* One process whose data directory loses a file while compactions run.    *)
(***************************************************************************)
InitAbort == InitWith(1..MaxTableSize, MaxOpsAbort)

NextAbort ==
    \/ \E key \in Keys : Put(key, <<1>>)
    \/ \E key \in Keys : Delete(key)
    \/ \E name \in DOMAIN sstFiles : FileLost(name)
    \/ RunCompaction

SpecAbort == InitAbort /\ [][NextAbort]_vars

(***************************************************************************)
(* One process on a disk that can fill up: while it is full, writing a     *)
(* file fails (the Flush of a WAL, the Build of an SSTable).  A bufio       *)
(* Writer that met a write error returns it on every later call.           *)
(***************************************************************************)
notFaultVars == <<walVars, memVars, bloomVars, indexVars, compVars, stepVars, fnVars>>

DiskFills ==
    /\ phase = "running"
    /\ ~diskFails
    /\ diskFails' = TRUE
    /\ UNCHANGED <<walErr, buildFails>>
    /\ UNCHANGED lsmVars
    /\ UNCHANGED notFaultVars

DiskRecovers ==
    /\ phase = "running"
    /\ diskFails
    /\ diskFails' = FALSE
    /\ UNCHANGED <<walErr, buildFails>>
    /\ UNCHANGED lsmVars
    /\ UNCHANGED notFaultVars

\* Put/Delete of entry e on the full disk: WriteEntry fills the buffer, the
\* memtable takes the entry and the final Flush fails; or the memtable is full,
\* rotateMemTable seals and queues it, and the Close of the old WAL inside
\* createNewActiveTable fails, so that the sealed table stays active and queued
WriteOnFullDisk(e) ==
    /\ phase = "running"
    /\ budget > 0
    /\ diskFails
    /\ ~walErr
    /\ LET err == MemTableErr(activeTable, e.key)
       IN IF err = Ok
          THEN /\ activeTable' = MemTableStore(activeTable,
                                     [e EXCEPT !.timestamp = clock + 2])
               /\ UNCHANGED immutableTables
          ELSE IF err = ErrTableFull
          THEN /\ activeTable' = SetReadOnly(activeTable)
               /\ immutableTables' = Append(immutableTables, SetReadOnly(activeTable))
          ELSE UNCHANGED <<activeTable, immutableTables>>
    /\ walErr' = TRUE
    /\ lastErr' = ErrIO
    /\ clock' = clock + 2
    /\ budget' = budget - 1
    /\ fresh' = FALSE
    /\ UNCHANGED <<maxTableSize, sstablesByLevel, wal, walCounter, walFiles, sstFiles,
                   compactions, phase, recoveries, restarts, expected, beforeClose,
                   builder, built>>
    /\ UNCHANGED <<diskFails, buildFails>>
    /\ UNCHANGED notFaultVars

\* Put/Delete after the writer of the WAL met an error: WriteEntry returns it
WriteRefused ==
    /\ phase = "running"
    /\ budget > 0
    /\ walErr
    /\ lastErr' = ErrIO
    /\ clock' = clock + 1
    /\ budget' = budget - 1
    /\ fresh' = FALSE
    /\ UNCHANGED <<maxTableSize, activeTable, immutableTables, sstablesByLevel, wal,
                   walCounter, walFiles, sstFiles, compactions, phase, recoveries,
                   restarts, expected, beforeClose, builder, built>>
    /\ UNCHANGED faultVars
    /\ UNCHANGED notFaultVars

RECURSIVE FlushAllOnFullDisk(_)
\* the loop of Close while Build fails: flushImmutableTableInternal has taken
\* the table off the queue when Build returns its error, and returns
FlushAllOnFullDisk(s) ==
    IF s.immutableTables = <<>> THEN s
    ELSE FlushAllOnFullDisk([s EXCEPT !.immutableTables = Tail(@)])

\* LSMTableService.Close on this disk; wal.Close returns the error of the writer
CloseOnDisk ==
    /\ phase = "running"
    /\ Install(IF diskFails THEN FlushAllOnFullDisk(Cur) ELSE FlushAll(Cur))
    /\ lastErr' = IF walErr THEN ErrIO ELSE Ok
    /\ phase' = "closed"
    /\ beforeClose' = [k \in AllKeys |-> ServiceGet(Cur, k)]
    /\ UNCHANGED <<fresh, recoveries, budget, restarts, expected, builder, built>>
    /\ UNCHANGED faultVars
    /\ UNCHANGED notFaultVars

InitClose == InitWith(1..MaxTableSize, MaxOpsClose)

NextClose ==
    \/ \E key \in Keys, value \in Values : ~diskFails /\ ~walErr /\ Put(key, value)
    \/ \E key \in Keys : ~diskFails /\ ~walErr /\ Delete(key)
    \/ \E key \in Keys, value \in Values : WriteOnFullDisk(NewPutEntry(key, value, 0))
    \/ \E key \in Keys : WriteOnFullDisk(NewDeleteEntry(key, 0))
    \/ WriteRefused
    \/ DiskFills
    \/ DiskRecovers
    \/ CloseOnDisk

SpecClose == InitClose /\ [][NextClose]_vars

(***************************************************************************)
(* One process whose sstables directory cannot be written for a while (it  *)
(* was removed or made read-only): os.Create in SSTableBuilder.Build fails *)
(* and leaves no file; the WAL directory is not affected.                  *)
(***************************************************************************)
MaxOpsBuild == 4

DirectoryLost ==
    /\ phase = "running"
    /\ ~buildFails
    /\ buildFails' = TRUE
    /\ UNCHANGED <<diskFails, walErr>>
    /\ UNCHANGED lsmVars
    /\ UNCHANGED notFaultVars

DirectoryBack ==
    /\ phase = "running"
    /\ buildFails
    /\ buildFails' = FALSE
    /\ UNCHANGED <<diskFails, walErr>>
    /\ UNCHANGED lsmVars
    /\ UNCHANGED notFaultVars

\* flushImmutableTableInternal when Build returns an error: the oldest table
\* is off the queue, the error is printed, nothing is registered
flushWithBuildError(s) ==
    IF s.immutableTables = <<>> THEN s
    ELSE [s EXCEPT !.immutableTables = Tail(s.immutableTables)]

\* rotateMemTable with that flush; it returns nil
rotateWithBuildError(s) ==
    flushWithBuildError(
        createNewActiveTable(
            [s EXCEPT !.immutableTables = Append(@, SetReadOnly(s.activeTable))]))

\* Put/Delete of entry e while Build fails
WriteOpWithBuildError(s, e) ==
    LET logged == [s EXCEPT !.clock = @ + 1,
                            !.walFiles = WriteEntry(@, s.wal,
                                            [e EXCEPT !.timestamp = s.clock + 1])]
        first == [e EXCEPT !.timestamp = logged.clock + 1]
        err1 == MemTableErr(logged.activeTable, e.key)
        t1 == [logged EXCEPT !.clock = @ + 1]
        rotated == rotateWithBuildError(t1)
        second == [e EXCEPT !.timestamp = rotated.clock + 1]
        err2 == MemTableErr(rotated.activeTable, e.key)
    IN IF err1 = Ok
       THEN [err |-> Ok, s |-> [t1 EXCEPT !.activeTable = MemTableStore(@, first)]]
       ELSE IF err1 # ErrTableFull
       THEN [err |-> err1, s |-> logged]
       ELSE [err |-> err2,
             s |-> [rotated EXCEPT !.clock = @ + 1,
                                   !.activeTable = MemTableStore(@, second)]]

WriteWhileBuildFails(e) ==
    /\ phase = "running"
    /\ budget > 0
    /\ buildFails
    /\ LET r == WriteOpWithBuildError(Cur, e)
       IN /\ Install(r.s)
          /\ lastErr' = r.err
    /\ budget' = budget - 1
    /\ fresh' = FALSE
    /\ UNCHANGED <<phase, recoveries, restarts, expected, beforeClose, builder, built>>
    /\ UNCHANGED unitVars

InitBuildFault == InitWith(1..MaxTableSize, MaxOpsBuild)

NextBuildFault ==
    \/ \E key \in Keys, value \in Values : ~buildFails /\ Put(key, value)
    \/ \E key \in Keys : ~buildFails /\ Delete(key)
    \/ \E key \in Keys, value \in Values : WriteWhileBuildFails(NewPutEntry(key, value, 0))
    \/ \E key \in Keys : WriteWhileBuildFails(NewDeleteEntry(key, 0))
    \/ DirectoryLost
    \/ DirectoryBack

SpecBuildFault == InitBuildFault /\ [][NextBuildFault]_vars

(***************************************************************************)
(* The service taken one statement at a time: a client inside Put or       *)
(* Delete, the runCompaction goroutine, and a reader calling Get, with     *)
(* LSMTableService.mu between them.  Put and Delete take mu.Lock() on      *)
(* entry and release it on return (defer); runCompaction does the same;    *)
(* Get takes mu.RLock().                                                   *)
(***************************************************************************)
\* Put/Delete with the lock given up while flushImmutableTableInternal has
\* the table popped and not yet registered
MuDuringFlushReleased(position) == IF position = "popped" THEN "free" ELSE "client"

\* mu at a position inside Put/Delete: Lock() on entry, deferred Unlock()
MuDuringCall(position) == "client"

\* runCompaction with the lock given up between the two loops of
\* updateSSTablesAfterCompaction
MuDuringInstallReleased(position) == IF position = "retired" THEN "free" ELSE "compaction"

\* mu at a position inside runCompaction: Lock() on entry, deferred Unlock()
MuDuringCompaction(position) == "compaction"

\* mu.RLock() can be taken
RLockFree == mu = "free"

\* Flush (or the Flush of Close): the buffered records go to the file
WriteOut(files, counter, records) == [files EXCEPT ![counter] = @ \o records]

\* the service variables a step leaves alone, by name
stepKept ==
    <<maxTableSize, phase, recoveries, restarts, expected, beforeClose, builder, built>>

\* Put/Delete up to and including s.wal.WriteEntry(entry)
StepBegin(e) ==
    /\ phase = "running"
    /\ budget > 0
    /\ pc = "idle"
    /\ mu = "free"
    /\ req' = e
    /\ pending' = Append(pending, [e EXCEPT !.timestamp = clock + 1])
    /\ clock' = clock + 1
    /\ budget' = budget - 1
    /\ fresh' = FALSE
    /\ pc' = "logged"
    /\ mu' = MuDuringCall("logged")
    /\ UNCHANGED <<activeTable, immutableTables, sstablesByLevel, wal, walCounter,
                   walFiles, sstFiles, compactions, lastErr>>
    /\ seen' = NoCall
    /\ UNCHANGED <<flushingTable, bgPc, bgTask, bgDone>>
    /\ UNCHANGED stepKept
    /\ UNCHANGED notStepVars

\* s.activeTable.Put / Delete; on ErrTableFull the first two statements of
\* rotateMemTable (SetReadOnly, append to immutableTables)
StepStore ==
    /\ pc = "logged"
    /\ LET err == MemTableErr(activeTable, req.key)
       IN /\ clock' = clock + 1
          /\ IF err = Ok
             THEN /\ activeTable' = MemTableStore(activeTable,
                                        [req EXCEPT !.timestamp = clock + 1])
                  /\ pc' = "stored"
                  /\ mu' = MuDuringCall("stored")
                  /\ UNCHANGED <<immutableTables, lastErr>>
             ELSE IF err = ErrTableFull
             THEN /\ activeTable' = SetReadOnly(activeTable)
                  /\ immutableTables' = Append(immutableTables, SetReadOnly(activeTable))
                  /\ pc' = "sealed"
                  /\ mu' = MuDuringCall("sealed")
                  /\ UNCHANGED lastErr
             ELSE /\ lastErr' = err
                  /\ pc' = "idle"
                  /\ mu' = "free"
                  /\ UNCHANGED <<activeTable, immutableTables>>
    /\ UNCHANGED <<sstablesByLevel, wal, walCounter, walFiles, sstFiles, compactions,
                   budget, fresh>>
    /\ UNCHANGED <<req, pending, flushingTable, bgPc, bgTask, bgDone, seen>>
    /\ UNCHANGED stepKept
    /\ UNCHANGED notStepVars

\* createNewActiveTable inside rotateMemTable: Close writes the buffer of the
\* old WAL out, the next WAL file is opened, a new MemTable becomes active
StepCreate ==
    /\ pc = "sealed"
    /\ walFiles' = OpenWAL(WriteOut(walFiles, wal, pending), walCounter)
    /\ pending' = <<>>
    /\ wal' = walCounter
    /\ walCounter' = walCounter + 1
    /\ activeTable' = NewMemTable(maxTableSize)
    /\ pc' = "created"
    /\ mu' = MuDuringCall("created")
    /\ UNCHANGED <<immutableTables, sstablesByLevel, sstFiles, compactions, clock,
                   budget, fresh, lastErr>>
    /\ UNCHANGED <<req, flushingTable, bgPc, bgTask, bgDone, seen>>
    /\ UNCHANGED stepKept
    /\ UNCHANGED notStepVars

\* flushImmutableTableInternal, its first two statements: the oldest immutable
\* table is taken off the queue
StepPop ==
    /\ pc = "created"
    /\ flushingTable' = Head(immutableTables)
    /\ immutableTables' = Tail(immutableTables)
    /\ pc' = "popped"
    /\ mu' = MuDuringCall("popped")
    /\ UNCHANGED <<activeTable, sstablesByLevel, wal, walCounter, walFiles, sstFiles,
                   compactions, clock, budget, fresh, lastErr>>
    /\ UNCHANGED <<req, pending, bgPc, bgTask, bgDone, seen>>
    /\ UNCHANGED stepKept
    /\ UNCHANGED notStepVars

\* flushImmutableTableInternal, the rest: the table is built, written and
\* registered at level 0, and a runCompaction goroutine is started if due
StepBuild ==
    /\ pc = "popped"
    /\ LET entries == MemTableGetAllEntries(flushingTable)
           filename == L0FileName(walCounter)
           sstable == BuildTable(entries, 0, filename, clock + 1)
           levels == [sstablesByLevel EXCEPT ![0] = AppendSlice(@, sstable)]
       IN IF entries = <<>>
          THEN UNCHANGED <<sstFiles, clock, sstablesByLevel, compactions>>
          ELSE /\ sstFiles' = WriteFile(sstFiles, filename, BuildRecords(entries))
               /\ clock' = clock + 1
               /\ sstablesByLevel' = levels
               /\ compactions' = IF ShouldCompact(levels) THEN compactions + 1
                                 ELSE compactions
    /\ pc' = "flushed"
    /\ mu' = MuDuringCall("flushed")
    /\ UNCHANGED <<activeTable, immutableTables, wal, walCounter, walFiles, budget,
                   fresh, lastErr>>
    /\ UNCHANGED <<req, pending, flushingTable, bgPc, bgTask, bgDone, seen>>
    /\ UNCHANGED stepKept
    /\ UNCHANGED notStepVars

\* the second s.activeTable.Put / Delete, on the new active table
StepRetry ==
    /\ pc = "flushed"
    /\ LET err == MemTableErr(activeTable, req.key)
       IN /\ clock' = clock + 1
          /\ IF err = Ok
             THEN /\ activeTable' = MemTableStore(activeTable,
                                        [req EXCEPT !.timestamp = clock + 1])
                  /\ pc' = "retried"
                  /\ mu' = MuDuringCall("retried")
                  /\ UNCHANGED lastErr
             ELSE /\ lastErr' = err
                  /\ pc' = "idle"
                  /\ mu' = "free"
                  /\ UNCHANGED activeTable
    /\ UNCHANGED <<immutableTables, sstablesByLevel, wal, walCounter, walFiles,
                   sstFiles, compactions, budget, fresh>>
    /\ UNCHANGED <<req, pending, flushingTable, bgPc, bgTask, bgDone, seen>>
    /\ UNCHANGED stepKept
    /\ UNCHANGED notStepVars

\* s.wal.Flush() and the return of Put/Delete
StepFlush ==
    /\ pc \in {"stored", "retried"}
    /\ walFiles' = WriteOut(walFiles, wal, pending)
    /\ pending' = <<>>
    /\ lastErr' = Ok
    /\ pc' = "idle"
    /\ mu' = "free"
    /\ UNCHANGED <<activeTable, immutableTables, sstablesByLevel, wal, walCounter,
                   sstFiles, compactions, clock, budget, fresh>>
    /\ UNCHANGED <<req, flushingTable, bgPc, bgTask, bgDone, seen>>
    /\ UNCHANGED stepKept
    /\ UNCHANGED notStepVars

\* runCompaction: Lock() and SelectCompactionTask; with no task it returns
BgSelect ==
    /\ compactions > 0
    /\ bgPc = "idle"
    /\ mu = "free"
    /\ compactions' = compactions - 1
    /\ LET task == SelectCompactionTask(sstablesByLevel)
       IN IF task.nil
          THEN UNCHANGED <<mu, bgPc, bgTask, sstablesByLevel>>
          ELSE /\ bgTask' = task
               /\ sstablesByLevel' = task.levels
               /\ bgPc' = "selected"
               /\ mu' = MuDuringCompaction("selected")
    /\ UNCHANGED <<activeTable, immutableTables, wal, walCounter, walFiles, sstFiles,
                   clock, budget, fresh, lastErr>>
    /\ seen' = NoCall
    /\ UNCHANGED <<pc, req, pending, flushingTable, bgDone>>
    /\ UNCHANGED stepKept
    /\ UNCHANGED notStepVars

\* runCompaction: ExecuteCompaction reads the inputs and writes the output
\* table; on an error runCompaction returns
BgExecute ==
    /\ bgPc = "selected"
    /\ LET done == ExecuteCompaction(bgTask, sstFiles, clock)
       IN IF done.err # Ok
          THEN /\ bgPc' = "idle"
               /\ mu' = "free"
               /\ UNCHANGED <<sstFiles, clock, bgDone>>
          ELSE /\ sstFiles' = done.files
               /\ clock' = IF done.outputTables = <<>> THEN clock ELSE clock + 2
               /\ bgDone' = done.outputTables
               /\ bgPc' = "executed"
               /\ mu' = MuDuringCompaction("executed")
    /\ UNCHANGED <<activeTable, immutableTables, sstablesByLevel, wal, walCounter,
                   walFiles, compactions, budget, fresh, lastErr>>
    /\ UNCHANGED <<pc, req, pending, flushingTable, bgTask, seen>>
    /\ UNCHANGED stepKept
    /\ UNCHANGED notStepVars

\* updateSSTablesAfterCompaction, its first loop: the inputs are taken off
\* their lists and their files removed
BgRetire ==
    /\ bgPc = "executed"
    /\ LET retired == RetireInputs(bgTask.InputSSTables, bgTask.aliased, 1,
                                   sstablesByLevel, sstFiles)
       IN /\ sstablesByLevel' = retired.levels
          /\ sstFiles' = retired.files
    /\ bgPc' = "retired"
    /\ mu' = MuDuringCompaction("retired")
    /\ UNCHANGED <<activeTable, immutableTables, wal, walCounter, walFiles,
                   compactions, clock, budget, fresh, lastErr>>
    /\ UNCHANGED <<pc, req, pending, flushingTable, bgTask, bgDone, seen>>
    /\ UNCHANGED stepKept
    /\ UNCHANGED notStepVars

\* updateSSTablesAfterCompaction, its second loop, and the return of
\* runCompaction
BgInstall ==
    /\ bgPc = "retired"
    /\ sstablesByLevel' = AddOutputs(bgDone, sstablesByLevel)
    /\ bgPc' = "idle"
    /\ mu' = "free"
    /\ UNCHANGED <<activeTable, immutableTables, wal, walCounter, walFiles, sstFiles,
                   compactions, clock, budget, fresh, lastErr>>
    /\ UNCHANGED <<pc, req, pending, flushingTable, bgTask, bgDone, seen>>
    /\ UNCHANGED stepKept
    /\ UNCHANGED notStepVars

\* a registered table whose file is no longer in the directory
OpensDeletedFile ==
    \E level \in 0..MaxLevel : \E i \in 1..Len(sstablesByLevel[level].elems) :
        sstablesByLevel[level].elems[i].fileName \notin DOMAIN sstFiles

\* LSMTableService.Get of a reader, under mu.RLock()
ReaderGet(key) ==
    /\ phase = "running"
    /\ RLockFree
    /\ seen' = [op |-> "Get", key |-> key, answer |-> ServiceGet(Cur, key),
                at |-> <<pc, bgPc>>]
    /\ UNCHANGED <<mu, pc, req, pending, flushingTable, bgPc, bgTask, bgDone>>
    /\ UNCHANGED lsmVars
    /\ UNCHANGED notStepVars

InitSteps == InitWith(0..MaxTableSize, MaxOpsSteps)

NextSteps ==
    \/ \E key \in Keys : StepBegin(NewPutEntry(key, <<1>>, 0))
    \/ \E key \in Keys : StepBegin(NewDeleteEntry(key, 0))
    \/ StepStore
    \/ StepCreate
    \/ StepPop
    \/ StepBuild
    \/ StepRetry
    \/ StepFlush
    \/ BgSelect
    \/ BgExecute
    \/ BgRetire
    \/ BgInstall
    \/ \E key \in Keys : ReaderGet(key)

SpecSteps == InitSteps /\ [][NextSteps]_vars

(***************************************************************************)
(* The methods of CompactionManager that read no state but their           *)
(* arguments, called on their own.                                         *)
(***************************************************************************)
notFnVars == <<walVars, memVars, bloomVars, indexVars, compVars, stepVars, faultVars>>

\* the keys the ranges are made of: of one and of two bytes
RangeKeys == IndexKeys \cup {<<>>}

\* cm.keyRangesOverlap(min1, max1, min2, max2) on two ranges of keys, each
\* with its bounds in the order of bytes.Compare.  Every behaviour of the
\* manager's specification is one call: the methods keep no state between calls
KeyRangesOverlapCall ==
    /\ fnCall = NoCall
    /\ \E min1, max1, min2, max2 \in RangeKeys :
          /\ BytesCompare(min1, max1) <= 0
          /\ BytesCompare(min2, max2) <= 0
          /\ fnCall' = [op |-> "keyRangesOverlap", min1 |-> min1, max1 |-> max1,
                        min2 |-> min2, max2 |-> max2,
                        result |-> keyRangesOverlap(min1, max1, min2, max2)]
    /\ UNCHANGED lsmVars
    /\ UNCHANGED notFnVars

\* the most tables a level of the map has when its sizes or its key ranges
\* are enumerated
MaxManagerTables == 2

\* an *SSTable as the manager reads it: its identity and its metadata
ManagerTable(level, i, minKey, maxKey, fileSize, createdAt) ==
    [id |-> <<level, i>>, level |-> level, minKey |-> minKey, maxKey |-> maxKey,
     fileSize |-> fileSize, createdAt |-> createdAt]

SliceOf(tables) == [elems |-> tables, cap |-> Len(tables)]

\* n level-0 tables, all of the key range [minKey, maxKey] but the last one,
\* whose range is [lastMin, lastMax]
Level0Of(n, minKey, maxKey, lastMin, lastMax) ==
    [i \in 1..n |-> IF i = n THEN ManagerTable(0, i, lastMin, lastMax, 1, i)
                    ELSE ManagerTable(0, i, minKey, maxKey, 1, i)] \o <<>>

\* file sizes around the budget of a level: the sums of two of them are
\* under, at and over it
SizesAround(level) == {1, maxSizeForLevel(level) - 1, maxSizeForLevel(level)}

\* the tables of a level with the file sizes of the list, one range of keys
SizedTables(level, sizes) ==
    [i \in 1..Len(sizes) |-> ManagerTable(level, i, KeyA, KeyB, sizes[i], i)] \o <<>>

SizeLists(level) ==
    UNION {[1..n -> SizesAround(level)] : n \in 0..MaxManagerTables}

\* the maps ShouldCompact is called on: level 0 with up to one table more
\* than the threshold, levels 1 and 2 with sizes around their budgets, level 3
\* empty, at its budget or one byte over
SizedRegistries ==
    {[EmptyLevels EXCEPT
         ![0] = SliceOf(Level0Of(n0, KeyA, KeyB, KeyA, KeyB)),
         ![1] = SliceOf(SizedTables(1, sizes1)),
         ![2] = SliceOf(SizedTables(2, sizes2)),
         ![3] = SliceOf(SizedTables(3, sizes3))] :
        n0 \in 0..(maxSSTablesLevel0 + 1),
        sizes1 \in SizeLists(1),
        sizes2 \in SizeLists(2),
        sizes3 \in {<<>>, <<maxSizeForLevel(3)>>, <<maxSizeForLevel(3) + 1>>}}

\* cm.ShouldCompact(sstablesByLevel)
ShouldCompactCall ==
    /\ fnCall = NoCall
    /\ \E levels \in SizedRegistries :
          fnCall' = [op |-> "ShouldCompact", levels |-> levels,
                     result |-> ShouldCompact(levels)]
    /\ UNCHANGED lsmVars
    /\ UNCHANGED notFnVars

\* the key ranges of the tables SelectCompactionTask is called on: of keys of
\* one byte, of two bytes, and of both
SelectRanges == {<<KeyA, KeyA>>, <<KeyA, KeyB>>, <<KeyAA, KeyAA>>, <<KeyB, KeyB>>}

RangeLists(lens) == UNION {[1..n -> SelectRanges] : n \in lens}

\* the tables of a level with the key ranges of the list; over its byte
\* budget or far under it; created in the order of the list or in the reverse
RangedTables(level, ranges, over, oldestFirst) ==
    [i \in 1..Len(ranges) |->
        ManagerTable(level, i, ranges[i][1], ranges[i][2],
                     IF over /\ i = 1 THEN maxSizeForLevel(level) ELSE 1,
                     IF oldestFirst THEN i ELSE Len(ranges) + 1 - i)] \o <<>>

\* level 0 at its threshold, level 1 with up to MaxManagerTables tables, one
\* table in level 2
Level0Registries ==
    {[EmptyLevels EXCEPT
         ![0] = SliceOf(Level0Of(maxSSTablesLevel0, r0[1], r0[2], last[1], last[2])),
         ![1] = SliceOf(RangedTables(1, ranges1, FALSE, TRUE)),
         ![2] = SliceOf(RangedTables(2, <<<<KeyA, KeyB>>>>, FALSE, TRUE))] :
        r0 \in SelectRanges, last \in SelectRanges,
        ranges1 \in RangeLists(0..MaxManagerTables)}

\* level 0 under its threshold, levels 1 and 2 with MaxManagerTables tables
\* each, over their budgets or not, level 3 with one table or none
DeeperRegistries ==
    {[EmptyLevels EXCEPT
         ![0] = SliceOf(Level0Of(maxSSTablesLevel0 - 1, KeyA, KeyB, KeyA, KeyB)),
         ![1] = SliceOf(RangedTables(1, ranges1, over1, oldestFirst)),
         ![2] = SliceOf(RangedTables(2, ranges2, over2, oldestFirst)),
         ![3] = SliceOf(RangedTables(3, ranges3, FALSE, TRUE))] :
        ranges1 \in RangeLists({MaxManagerTables}),
        ranges2 \in RangeLists({MaxManagerTables}),
        ranges3 \in RangeLists({0, 1}),
        over1 \in BOOLEAN, over2 \in BOOLEAN, oldestFirst \in BOOLEAN}

\* cm.SelectCompactionTask(sstablesByLevel)
SelectCompactionTaskCall ==
    /\ fnCall = NoCall
    /\ \E levels \in Level0Registries \cup DeeperRegistries :
          fnCall' = [op |-> "SelectCompactionTask", levels |-> levels,
                     task |-> SelectCompactionTask(levels)]
    /\ UNCHANGED lsmVars
    /\ UNCHANGED notFnVars

InitManager == InitWith({MaxTableSize}, 0)

NextManager ==
    \/ KeyRangesOverlapCall
    \/ ShouldCompactCall
    \/ SelectCompactionTaskCall

SpecManager == InitManager /\ [][NextManager]_vars

(***************************************************************************)
(* One process under a fair scheduler: a runCompaction goroutine that was  *)
(* started and waits for the lock eventually gets it.                      *)
(***************************************************************************)
SpecLive == Init /\ [][Next]_vars /\ WF_vars(RunCompaction)

(***************************************************************************)
(* Claims.                                                                 *)
(***************************************************************************)
\* what a client calling Get(key) is answered in the current state
GetNow(key) == ServiceGet(Cur, key)

\* C1: Get(k) returns the value of the most recent successful Put(k, v) of the
\* process whenever no Delete(k) and no other Put(k, v') completed after it.
C1_GetReturnsLatestPut ==
    \A key \in AllKeys : expected[key].err = Ok => GetNow(key) = expected[key]

\* C2: after a successful Delete(k) with no later Put(k, _), Get(k) returns
\* ErrKeyNotFound in every reachable state.
C2_GetAfterDeleteNotFound ==
    \A key \in AllKeys : expected[key] = NotFound => GetNow(key) = NotFound

\* C3: for every run of runCompaction and every key k, Get(k) right after the
\* compaction is installed equals Get(k) right before it.
C3_CompactionPreservesGet ==
    [][RunCompaction => \A key \in AllKeys : GetNow(key)' = GetNow(key)]_vars

\* C4: after Put/Delete calls, Close, a new service on the same directory and
\* Recovery, Get(k) returns for every key what it returned just before Close.
C4_RecoveryRestoresGets ==
    (restarts >= 1 /\ phase = "running" /\ fresh /\ recoveries = 1 /\ lastErr = Ok)
        => \A key \in AllKeys : GetNow(key) = beforeClose[key]

\* C5: a second Recovery against the same on-disk state leaves Get(k) as it was
\* after the first, for every key.
C5_RecoveryIdempotent ==
    [][(Recovery /\ recoveries >= 1) => \A key \in AllKeys : GetNow(key)' = GetNow(key)]_vars

\* file name f is registered in the list of the level its name encodes
Registered(f) ==
    \E i \in 1..Len(sstablesByLevel[f.level].elems) :
        sstablesByLevel[f.level].elems[i].fileName = f

\* C6: after Recovery returns, every .sst file of the sstables directory is
\* registered in sstablesByLevel under the level encoded in its name.
C6_RecoveryLoadsSSTables ==
    (phase = "running" /\ fresh /\ recoveries >= 1 /\ lastErr = Ok)
        => \A f \in DOMAIN sstFiles : Registered(f)

\* a Put or Delete step of a client
IsWrite == budget' = budget - 1

\* C7: with capacity N >= 1, after N distinct-key Puts GetMemTableStats is (N, 0),
\* and right after the Put of one more distinct key (the first rotation of the
\* process) it is active size 1 and immutable count exactly 1.
C7_StatsAroundRotation ==
    [][/\ (maxTableSize >= 1 /\ walCounter = 1 /\ activeTable.size = maxTableSize)
            => GetMemTableStats(Cur) = <<maxTableSize, 0>>
       /\ (maxTableSize >= 1 /\ walCounter = 1 /\ IsWrite /\ walCounter' = 2)
            => GetMemTableStats(Cur)' = <<1, 1>>]_vars

\* the write of this step found the active memtable full for its key
FullFor(key) == MemTableErr(activeTable, key) = ErrTableFull

RangesMeet(a, b) ==
    BytesCompare(a.maxKey, b.minKey) >= 0 /\ BytesCompare(b.maxKey, a.minKey) >= 0

\* C9: every SSTable registered at a level >= 1 has min_key <= max_key, and two
\* distinct SSTables of one level >= 1 have non-overlapping key ranges, under
\* lexicographic byte order.
C9_LevelsDoNotOverlap ==
    \A level \in 1..MaxLevel :
        LET tables == sstablesByLevel[level].elems
        IN /\ \A i \in 1..Len(tables) :
                 BytesCompare(tables[i].minKey, tables[i].maxKey) <= 0
           /\ \A i, j \in 1..Len(tables) :
                 i # j => ~RangesMeet(tables[i], tables[j])

\* what GetAllEntries (and the iterator) read back from the built table
BuiltRead == SSTableGetAllEntries(built.sst, sstFiles).entries

\* C10: reading the entries of a table produced by Build sequentially yields
\* strictly ascending keys, and Metadata().MinKey / MaxKey are the keys of the
\* first and the last entry read.
C10_BuildStrictlyAscending ==
    (built.done /\ built.err = Ok)
        => /\ \A i \in 1..(Len(BuiltRead) - 1) :
                 BytesCompare(BuiltRead[i].key, BuiltRead[i + 1].key) < 0
           /\ built.sst.minKey = BuiltRead[1].key
           /\ built.sst.maxKey = BuiltRead[Len(BuiltRead)].key

\* the entry added to the built table under key, as a sequence of 0 or 1 entries
AddedUnder(key) ==
    SelectSeq(built.added, LAMBDA e : e.key = key)

\* C11: for a table built from entries with distinct keys, SSTable.Get(k)
\* returns the stored entry (a DELETE entry as it is) for every key added and
\* ErrKeyNotFound for every key not added, whatever the number of entries
\* relative to the block size.
C11_GetFindsExactlyAdded ==
    (built.done /\ built.err = Ok)
        => \A i \in 0..(2 * MaxIndexedLen + 1) :
              LET got == SSTableGet(built.sst, ProbeKey(i), sstFiles)
                  added == AddedUnder(ProbeKey(i))
              IN IF added # <<>>
                 THEN got = [err |-> Ok, entry |-> added[1]]
                 ELSE got = [err |-> ErrKeyNotFound]

\* a table of more than one block was built and holds a DELETE entry past the
\* first block
C11_Witness ==
    /\ built.done
    /\ built.err = Ok
    /\ Len(built.sst.blockIndex) >= 2
    /\ \E i \in (blockSize + 1)..Len(builder) : IsDeleted(builder[i])
    /\ SSTableGet(built.sst, builder[Len(builder)].key, sstFiles).err = Ok

\* C12: WAL round trip: after WriteEntry(e1), ..., WriteEntry(en) and Flush on
\* one WAL, Recover returns exactly n entries in write order, with keys, values,
\* kinds and timestamps identical to e1..en.
C12_WalRoundTrip ==
    (walRecovered.done /\ walTorn = 0
        /\ walRecovered.flushed = Len(walRecovered.written))
        => /\ walRecovered.err = Ok
           /\ walRecovered.entries = walRecovered.written

C12_Witness ==
    /\ walRecovered.done
    /\ walRecovered.flushed = Len(walRecovered.written)
    /\ Len(walRecovered.written) >= 2
    /\ \E i, j \in 1..Len(walRecovered.written) :
          /\ walRecovered.written[i].entryType = "DELETE"
          /\ walRecovered.written[j].entryType = "PUT"
          /\ walRecovered.written[j].value # <<>>
          /\ walRecovered.written[j].key # <<>>

\* the number of records of written that lie whole in a file of these bytes
CompleteRecords(file, written) ==
    Cardinality({n \in 1..Len(written) :
                    Len(WalRecords(SubSeq(written, 1, n))) <= Len(file)})

\* the file stops part-way through a record
EndsInTornRecord(file, written) ==
    \A n \in 0..Len(written) : Len(WalRecords(SubSeq(written, 1, n))) # Len(file)

\* C13: if the WAL file ends with a truncated record (the file stops part-way
\* through any field of the last record), WAL.Recover returns without error the
\* sequence of all complete records that precede it.
C13_TornTailIgnored ==
    (walRecovered.done /\ walTorn > 0
        /\ EndsInTornRecord(walRecovered.file, walRecovered.written))
        => /\ walRecovered.err = Ok
           /\ walRecovered.entries =
                 SubSeq(walRecovered.written, 1,
                        CompleteRecords(walRecovered.file, walRecovered.written))

\* the last call was a Put or a Delete
MemWrote == memCall.op \in {"Put", "Delete"}

\* the last call left the stored entries and the size as they were
MemUntouched ==
    /\ memTable.entries = memCall.before.entries
    /\ memTable.size = memCall.before.size

\* the last call was a Put or a Delete of a key not present, on a table with
\* size = maxSize
MemNewKeyOnFull ==
    /\ MemWrote
    /\ ~MemHas(memCall.before, memCall.key)
    /\ memCall.before.size = memCall.before.maxSize

MemSizeInvariant ==
    memTable # NoMemTable
        => /\ memTable.size = Cardinality(DOMAIN memTable.entries)
           /\ memTable.size <= memTable.maxSize

MemKnownKey == MemWrote /\ MemHas(memCall.before, memCall.key)

\* the last call stored its entry in place: the size and every other key are
\* as they were
MemReplaced ==
    /\ memCall.err = Ok
    /\ memTable.size = memCall.before.size
    /\ DOMAIN memTable.entries = DOMAIN memCall.before.entries
    /\ \A key \in DOMAIN memTable.entries :
          memTable.entries[key] =
              IF key = memCall.key THEN memCall.entry ELSE memCall.before.entries[key]

\* C15 as claimed: MemTable.Put or MemTable.Delete on a key that is already
\* present replaces the stored entry without changing Size(), and succeeds even
\* when the table is full (size == maxSize).
C15_OverwriteInPlace == MemKnownKey => MemReplaced

\* C15, for tables that are not read-only: Put or Delete on a key that is
\* already present, on a table on which SetReadOnly was not called, replaces
\* the stored entry without changing Size(), and succeeds even when the table
\* is full.
C15_OverwriteInPlaceUnsealed ==
    (MemKnownKey /\ ~memCall.before.readOnly) => MemReplaced

C15_Witness ==
    /\ MemKnownKey
    /\ ~memCall.before.readOnly
    /\ memCall.before.size = memCall.before.maxSize
    /\ memCall.before.size = MaxTableSize
    /\ memCall.entry # memCall.before.entries[memCall.key]

\* the last call was made on a table on which SetReadOnly had been called
MemSealedBefore == memCall.op # "none" /\ memCall.before.readOnly

\* C16: once MemTable.SetReadOnly has been called, every later Put and Delete
\* on that table returns an error and leaves its entries and size unchanged,
\* while Get keeps returning the stored entries; SetReadOnly is idempotent.
C16_ReadOnlyFreezes ==
    MemSealedBefore
        => /\ memTable.readOnly
           /\ MemUntouched
           /\ MemWrote => memCall.err # Ok
           /\ \A key \in MixedKeys :
                 MemTableGet(memTable, key) = MemTableGet(memCall.before, key)
           /\ memCall.op = "SetReadOnly" => memTable = memCall.before

C16_Witness ==
    /\ MemSealedBefore
    /\ MemWrote
    /\ MemHas(memCall.before, memCall.key)
    /\ memCall.before.size < memCall.before.maxSize
    /\ \E key \in MixedKeys : MemTableGet(memTable, key).err = Ok

\* the filter of the table an SSTableBuilder made for estimatedEntries entries
\* builds from one entry for each of the keys
BuilderFilter(keys, estimatedEntries) ==
    LET ks == SetToSeq(keys)
        entries == [i \in 1..Len(ks) |-> NewPutEntry(ks[i], <<1>>, i)]
    IN BuildTableWith(entries, 0, BuildFileName, 0, estimatedEntries).bloom

\* C17: the Bloom filter has no false negatives: for any sequence of
\* BloomFilter.Add calls, Contains(k) returns true for every key k that was
\* added (until Reset), so SSTable.Get never rejects a key stored in the table
\* at its Bloom-filter check.
C17_NoFalseNegatives ==
    (bloom # NoBloom /\ ~bloomPanic)
        => /\ \A key \in bloomAdded : BloomContains(bloom, key)
           /\ bloomAdded # {} =>
                 \A estimatedEntries \in 1..MaxBloomCapacity, key \in bloomAdded :
                    BloomContains(BuilderFilter(bloomAdded, estimatedEntries), key)

C17_Witness ==
    /\ bloom # NoBloom
    /\ Cardinality(bloomAdded) >= 2
    /\ bloomOps > Cardinality(bloomAdded)
    /\ \E key \in BloomKeys \ bloomAdded : ~BloomContains(bloom, key)

\* the positions of the index whose key is <= targetKey
IndexedUpTo(targetKey) ==
    {i \in 1..Len(blockIndex) : BytesCompare(blockIndex[i].Key, targetKey) <= 0}

\* C18: for a BlockIndex whose entries were added in ascending key order,
\* FindOffset(t) returns the offset of the entry with the largest indexed key
\* <= t, and returns 0 when the index is empty or every indexed key is greater
\* than t.
C18_FindOffsetLargestBelow ==
    \A targetKey \in IndexTargets :
        IF IndexedUpTo(targetKey) = {}
        THEN FindOffset(blockIndex, targetKey) = 0
        ELSE \E i \in IndexedUpTo(targetKey) :
                /\ \A j \in IndexedUpTo(targetKey) :
                      BytesCompare(blockIndex[j].Key, blockIndex[i].Key) <= 0
                /\ FindOffset(blockIndex, targetKey) = blockIndex[i].Offset

C18_Witness ==
    /\ Len(blockIndex) >= 3
    /\ \A i, j \in 1..Len(blockIndex) :
          i # j => /\ blockIndex[i].Key # blockIndex[j].Key
                   /\ blockIndex[i].Offset # blockIndex[j].Offset
    /\ \E targetKey \in IndexTargets : IndexedUpTo(targetKey) = {}
    /\ \E targetKey \in IndexTargets \ IndexKeys :
          /\ IndexedUpTo(targetKey) # {}
          /\ IndexedUpTo(targetKey) # 1..Len(blockIndex)
          /\ FindOffset(blockIndex, targetKey) # 0

\* the entries GetAllEntries reads from the tables
EntriesOfTables(tables, files) ==
    UNION {{SSTableGetAllEntries(tables[i], files).entries[p] :
               p \in 1..Len(SSTableGetAllEntries(tables[i], files).entries)} :
           i \in 1..Len(tables)}

\* the versions of key in the input tables, and the newest of them
CompVersions(key) == {e \in EntriesOfTables(compInputs, compFiles) : e.key = key}

CompNewest(key) ==
    {e \in CompVersions(key) : \A other \in CompVersions(key) : ~IsNewerThan(other, e)}

\* the entries of key in the output tables
CompOutput(key) ==
    {e \in EntriesOfTables(compResult.outputTables, compFiles) : e.key = key}

\* the number of records of key in the output tables
CompOutputCount(key) ==
    LET records(i) == SSTableGetAllEntries(compResult.outputTables[i], compFiles).entries
    IN Cardinality({<<i, p>> \in (1..Len(compResult.outputTables)) \X (1..MaxCompEntries) :
                       p <= Len(records(i)) /\ records(i)[p].key = key})

CompExecuted == compPhase = "done" /\ compResult.err = Ok

\* C19: ExecuteCompaction returns a table set that contains, for every key
\* occurring in any input table, exactly the version with the newest timestamp
\* when that version is a PUT, and no entry for the key when that newest
\* version is a DELETE; it contains no other keys, and at most one output table
\* is produced.  (When a PUT and a DELETE of a key tie for the newest
\* timestamp, either outcome is taken as meeting the claim.)
C19_CompactionKeepsNewest ==
    CompExecuted
        => /\ Len(compResult.outputTables) <= 1
           /\ \A key \in CompKeys \cup AllKeys :
                 /\ CompVersions(key) = {} => CompOutput(key) = {}
                 /\ CompOutput(key) \subseteq {e \in CompNewest(key) : ~IsDeleted(e)}
                 /\ CompOutputCount(key) <= 1
                 /\ (CompNewest(key) # {} /\ \A e \in CompNewest(key) : ~IsDeleted(e))
                       => CompOutputCount(key) = 1
                 /\ (\A e \in CompNewest(key) : IsDeleted(e)) => CompOutput(key) = {}

C19_Witness ==
    /\ CompExecuted
    /\ Len(compInputs) >= 2
    /\ Len(compResult.outputTables) = 1
    /\ \E key \in CompKeys :
          /\ CompOutput(key) = {}
          /\ \E e \in CompVersions(key) : ~IsDeleted(e)
          /\ \A e \in CompNewest(key) : IsDeleted(e)
    /\ \E key \in CompKeys :
          /\ CompOutputCount(key) = 1
          /\ Cardinality(CompVersions(key)) >= 2
          /\ \A e \in CompNewest(key) : ~IsDeleted(e)

RECURSIVE IOErrorInTables(_, _, _, _)
\* Get of one of the tables i, i-1, ..., 1 fails with an IO error before one of
\* them answers
IOErrorInTables(tables, i, key, files) ==
    IF i = 0 THEN FALSE
    ELSE LET got == SSTableGet(tables[i], key, files)
         IN IF got.err = ErrIO THEN TRUE
            ELSE IF got.err = Ok THEN FALSE
            ELSE IOErrorInTables(tables, i - 1, key, files)

RECURSIVE IOErrorInLevels(_, _, _)
IOErrorInLevels(s, level, key) ==
    IF level >= MaxLevel THEN FALSE
    ELSE LET tables == s.sstablesByLevel[level].elems
         IN IF IOErrorInTables(tables, Len(tables), key, s.sstFiles) THEN TRUE
            ELSE IF GetFromTables(tables, Len(tables), key, s.sstFiles) # Miss THEN FALSE
            ELSE IOErrorInLevels(s, level + 1, key)

\* Get(key) goes on to the SSTables, and reading one of them fails
GetMeetsIOError(key) ==
    /\ phase = "running"
    /\ ~MemHas(activeTable, key)
    /\ GetFromMemTables(immutableTables, Len(immutableTables), key) = Miss
    /\ IOErrorInLevels(Cur, 0, key)

\* C20: an IO or corruption error raised while LSMTableService.Get reads an
\* SSTable is returned to the caller as an error distinct from ErrKeyNotFound;
\* it is never reported as a miss and never causes Get to return a value from
\* an older layer.
C20_GetPropagatesIOErrors ==
    \A key \in AllKeys :
        GetMeetsIOError(key) => GetNow(key).err \notin {Ok, ErrKeyNotFound}

\* the task a runCompaction that gets the lock now selects, and what
\* ExecuteCompaction makes of it
TaskNow == SelectCompactionTask(sstablesByLevel)

DoneNow == ExecuteCompaction(TaskNow, sstFiles, clock)

\* a runCompaction step that reaches updateSSTablesAfterCompaction
InstallsTask == RunCompaction /\ ~TaskNow.nil /\ DoneNow.err = Ok

\* table t is in the list of some level of the registry levels
RegisteredIn(levels, t) ==
    \E level \in 0..MaxLevel : \E i \in 1..Len(levels[level].elems) :
        levels[level].elems[i] = t

\* C27: after runCompaction installs a task, no input table of the task is
\* registered in any level list, every output table is registered in the list
\* of the output level, and the file of every input table, and of no table
\* that is registered, has been deleted.
C27_InstallRetiresInputs ==
    [][InstallsTask =>
         /\ \A i \in 1..Len(TaskNow.InputSSTables) :
               /\ ~RegisteredIn(sstablesByLevel', TaskNow.InputSSTables[i])
               /\ TaskNow.InputSSTables[i].fileName \notin DOMAIN sstFiles'
         /\ \A i \in 1..Len(DoneNow.outputTables) :
               \E j \in 1..Len(sstablesByLevel'[TaskNow.OutputLevel].elems) :
                   sstablesByLevel'[TaskNow.OutputLevel].elems[j] = DoneNow.outputTables[i]
         /\ \A level \in 0..MaxLevel : \A j \in 1..Len(sstablesByLevel'[level].elems) :
               sstablesByLevel'[level].elems[j].fileName \in DOMAIN sstFiles']_vars

RECURSIVE RecordsFrom(_, _)
\* the records of the WAL files wal_<counter>.log, wal_<counter+1>.log, ... of
\* the directory files, one file after the other
RecordsFrom(files, counter) ==
    IF \A c \in DOMAIN files : c < counter THEN <<>>
    ELSE (IF counter \in DOMAIN files THEN files[counter] ELSE <<>>)
            \o RecordsFrom(files, counter + 1)

\* the last record of key in the sequence records, or "none"
LastRecord(records, key) ==
    LET at == {i \in 1..Len(records) : records[i].key = key}
    IN IF at = {} THEN [entryType |-> "none"]
       ELSE records[CHOOSE i \in at : \A j \in at : j <= i]

\* a new process has called Recovery once, and it returned nil
Recovered == restarts >= 1 /\ phase = "running" /\ fresh /\ recoveries = 1 /\ lastErr = Ok

\* C29: Recovery replays every WAL file of the directory, in ascending counter
\* order, into the memtable pipeline and skips no file of an earlier run: after
\* it, Get answers every key from the last record the WAL files hold for it.
C29_RecoveryReplaysEveryWal ==
    Recovered =>
        \A key \in AllKeys :
            LET last == LastRecord(RecordsFrom(walFiles, 0), key)
            IN last.entryType # "none" => GetNow(key) = Answer(last)

\* the WAL file records holds the record WriteEntry wrote for entry e; the two
\* carry timestamps of their own (Put reads the clock, then MemTable.Put does)
HasRecordOf(records, e) ==
    \E i \in 1..Len(records) :
        /\ records[i].key = e.key
        /\ records[i].value = e.value
        /\ records[i].entryType = e.entryType

\* C30: one WAL, one memtable: in every reachable state the record of every
\* entry the active memtable holds is in the current WAL file of the service
\* (and so each WAL file holds the records of the memtable generation it was
\* created with, the record of the write that triggers a rotation included).
C30_OneWalPerMemTable ==
    phase = "running" =>
        \A key \in DOMAIN activeTable.entries :
            HasRecordOf(walFiles[wal], activeTable.entries[key])

\* some WAL file of the directory holds the record of entry e
FlushedRecordOf(e) == \E c \in DOMAIN walFiles : HasRecordOf(walFiles[c], e)

\* C23: in Put and Delete the record is appended to the current WAL and
\* fsynced before the entry is inserted into the active memtable: in no
\* reachable state does the active memtable hold an entry whose WAL record has
\* not been flushed.
C23_FlushedBeforeStored ==
    \A key \in DOMAIN activeTable.entries : FlushedRecordOf(activeTable.entries[key])

\* the positions of Put/Delete inside and after rotateMemTable
RotationPositions == {"sealed", "created", "popped", "flushed", "retried"}

\* the memtable the rotation in progress (or just done) sealed
SealedTable ==
    IF pc \in {"sealed", "created"} THEN immutableTables[Len(immutableTables)]
    ELSE flushingTable

\* entry e is in the active memtable, in an immutable memtable of the queue or
\* in a table registered at level 0
HeldInPipeline(e) ==
    \/ MemHas(activeTable, e.key) /\ activeTable.entries[e.key] = e
    \/ \E i \in 1..Len(immutableTables) :
          MemHas(immutableTables[i], e.key) /\ immutableTables[i].entries[e.key] = e
    \/ \E i \in 1..Len(sstablesByLevel[0].elems) :
          LET got == SSTableGetAllEntries(sstablesByLevel[0].elems[i], sstFiles)
          IN got.err = Ok /\ \E j \in 1..Len(got.entries) : got.entries[j] = e

SealedHeld == \A key \in DOMAIN SealedTable.entries : HeldInPipeline(SealedTable.entries[key])

IntermediateLists == bgPc = "retired"

\* C25: the compaction swap is atomic for readers: a Get never sees an
\* intermediate list, and never opens an SSTable file that has been deleted.
C25_SwapAtomicForReaders ==
    [][(\E key \in Keys : ReaderGet(key)) => ~IntermediateLists /\ ~OpensDeletedFile]_vars

C25_Witness ==
    /\ seen.op = "Get"
    /\ bgPc = "idle"
    /\ bgTask # NoTask
    /\ bgDone # <<>>
    /\ RegisteredIn(sstablesByLevel, bgDone[1])
    /\ seen.answer.err = Ok

\* C26: a compaction task holds no engine lock while ExecuteCompaction reads,
\* sorts and builds, so that foreground calls (which need the lock) can
\* proceed while it runs.
C26_CompactionRunsUnlocked == bgPc = "selected" => mu = "free"

\* the entries a memtable holds, and the entries the file of a table holds
MemLayer(table) == {table.entries[key] : key \in DOMAIN table.entries}

TableLayer(table) ==
    IF table.fileName \in DOMAIN sstFiles
    THEN {sstFiles[table.fileName][j] : j \in 1..Len(sstFiles[table.fileName])}
    ELSE {}

\* the tables of a level, the one created last first
NewestFirst(tables) ==
    LET byAge == SortByCreatedAt(tables)
    IN [i \in 1..Len(tables) |-> TableLayer(byAge[Len(tables) + 1 - i])]

RECURSIVE LevelLayers(_)
LevelLayers(level) ==
    IF level >= MaxLevel THEN <<>>
    ELSE NewestFirst(sstablesByLevel[level].elems) \o LevelLayers(level + 1)

\* the layers in the order of the claim: the active memtable, the immutable
\* memtables newest first, level 0 newest first, then levels 1, 2, ...
Layers ==
    <<MemLayer(activeTable)>>
        \o [i \in 1..Len(immutableTables) |->
               MemLayer(immutableTables[Len(immutableTables) + 1 - i])]
        \o LevelLayers(0)

Holders(layers, key) == {i \in 1..Len(layers) : \E e \in layers[i] : e.key = key}

\* the answer of the first of the layers that holds the key
FirstLayerAnswer(layers, key) ==
    LET holders == Holders(layers, key)
    IN IF holders = {} THEN NotFound
       ELSE LET first == CHOOSE i \in holders : \A j \in holders : i <= j
            IN Answer(CHOOSE e \in layers[first] : e.key = key)

\* C22: Get consults the active memtable, the immutable memtables newest
\* first, the level-0 tables newest first and then levels 1 and up, and answers
\* from the first layer that holds the key: the value of a PUT entry,
\* ErrKeyNotFound for a DELETE entry; no older layer decides after a hit.
C22_GetLayerOrder ==
    phase = "running" =>
        LET layers == Layers
        IN \A key \in AllKeys : GetNow(key) = FirstLayerAnswer(layers, key)

\* a key that a level-0 table and a level-1 table both hold, with different
\* answers, and that no memtable holds
C22_Witness ==
    /\ phase = "running"
    /\ \E key \in AllKeys :
          /\ ~MemHas(activeTable, key)
          /\ \E i \in 1..Len(sstablesByLevel[0].elems), j \in 1..Len(sstablesByLevel[1].elems) :
                \E e0 \in TableLayer(sstablesByLevel[0].elems[i]),
                   e1 \in TableLayer(sstablesByLevel[1].elems[j]) :
                    /\ e0.key = key
                    /\ e1.key = key
                    /\ Answer(e0) # Answer(e1)
          /\ GetNow(key) = FirstLayerAnswer(Layers, key)

\* a runCompaction step whose ExecuteCompaction fails
AbortsTask == RunCompaction /\ ~TaskNow.nil /\ DoneNow.err # Ok

\* C28: if reading an input table fails during ExecuteCompaction, the
\* compaction aborts: every input is still registered, no file has been
\* removed or written, the level lists and the memtables (all that Get reads)
\* are unchanged, and no Put or Delete fails.
C28_FailedCompactionAborts ==
    [][/\ AbortsTask =>
            /\ sstablesByLevel' = sstablesByLevel
            /\ sstFiles' = sstFiles
            /\ \A i \in 1..Len(TaskNow.InputSSTables) :
                  RegisteredIn(sstablesByLevel', TaskNow.InputSSTables[i])
            /\ activeTable' = activeTable
            /\ immutableTables' = immutableTables
       /\ IsWrite => lastErr' = Ok]_vars

\* a compaction has run over the level-0 tables and left them all in place,
\* one of them without its file
C28_Witness ==
    /\ compactions = 0
    /\ Len(sstablesByLevel[0].elems) >= maxSSTablesLevel0
    /\ sstablesByLevel[1].elems = <<>>
    /\ OpensDeletedFile
    /\ lastErr = Ok

\* entry e is in the file of a table registered at level 0 of levels
InLevel0(levels, files, e) ==
    \E i \in 1..Len(levels[0].elems) :
        LET got == SSTableGetAllEntries(levels[0].elems[i], files)
        IN got.err = Ok /\ \E j \in 1..Len(got.entries) : got.entries[j] = e

\* a step of Close
IsClose == phase = "running" /\ phase' = "closed"

\* C21: Close terminates, and when it returns the queue of immutable memtables
\* is empty and every entry of every memtable that was in the queue is in a
\* level-0 SSTable registered in the service.
C21_CloseFlushesQueue ==
    [][IsClose =>
         /\ immutableTables' = <<>>
         /\ \A i \in 1..Len(immutableTables) :
               \A key \in DOMAIN immutableTables[i].entries :
                   InLevel0(sstablesByLevel', sstFiles', immutableTables[i].entries[key])]_vars

\* C31: for key ranges [min1, max1] and [min2, max2] with bounds in order,
\* of keys of equal or different lengths, keyRangesOverlap is true exactly
\* when max1 >= min2 and max2 >= min1 in the lexicographic order of the bytes
\* (bytes.Compare, the order SSTable entries are sorted in).
C31_OverlapIsLexicographic ==
    fnCall.op = "keyRangesOverlap" =>
        (fnCall.result <=> (/\ BytesCompare(fnCall.max1, fnCall.min2) >= 0
                            /\ BytesCompare(fnCall.max2, fnCall.min1) >= 0))

\* the byte budget of level L >= 1: max_level0_bytes * size_multiplier^(L-1)
LevelBudget(L) == maxSizeLevel0 * sizeMultiplier ^ (L - 1)

\* the levels of the map that hold more bytes than their budget
OverBudget(levels) ==
    {L \in 1..MaxLevel :
        /\ levels[L].elems # <<>>
        /\ calculateTotalSize(levels[L].elems) > LevelBudget(L)}

\* C32: with the Leveled strategy ShouldCompact is true exactly when level 0
\* holds at least max_level0_tables (4) tables or some level L >= 1 holds
\* strictly more file bytes than max_level0_bytes * size_multiplier^(L-1).
C32_ShouldCompactIffOverThreshold ==
    fnCall.op = "ShouldCompact" =>
        (fnCall.result <=> (\/ Len(fnCall.levels[0].elems) >= maxSSTablesLevel0
                            \/ OverBudget(fnCall.levels) # {}))

\* ShouldCompact has answered both ways at the thresholds: true for a level
\* one byte over its budget under three level-0 tables, false for levels at
\* their budget
C32_Witness ==
    /\ fnCall.op = "ShouldCompact"
    /\ Len(fnCall.levels[0].elems) = maxSSTablesLevel0 - 1
    /\ \/ /\ fnCall.result
          /\ calculateTotalSize(fnCall.levels[2].elems) = LevelBudget(2) + 1
          /\ Len(fnCall.levels[2].elems) = 2

Range(seq) == {seq[i] : i \in DOMAIN seq}

\* the key of a set that bytes.Compare orders first, and last
LexMin(keys) == CHOOSE k \in keys : \A other \in keys : BytesCompare(k, other) <= 0
LexMax(keys) == CHOOSE k \in keys : \A other \in keys : BytesCompare(k, other) >= 0

\* the tables whose key range shares a key with [minKey, maxKey], in the
\* order of the keys in the files
Overlapping(tables, minKey, maxKey) ==
    {t \in Range(tables) : /\ BytesCompare(t.maxKey, minKey) >= 0
                           /\ BytesCompare(maxKey, t.minKey) >= 0}

\* C33: with the Leveled strategy and level 0 at or over its threshold,
\* SelectCompactionTask returns a MajorCompaction task with output level 1
\* whose inputs are exactly all level-0 tables plus every level-1 table whose
\* key range overlaps the union range of the level-0 tables.
C33_Level0TaskInputs ==
    (/\ fnCall.op = "SelectCompactionTask"
     /\ Len(fnCall.levels[0].elems) >= maxSSTablesLevel0) =>
        LET level0Tables == fnCall.levels[0].elems
            minKey == LexMin({t.minKey : t \in Range(level0Tables)})
            maxKey == LexMax({t.maxKey : t \in Range(level0Tables)})
        IN /\ ~fnCall.task.nil
           /\ fnCall.task.CompactionType = "MajorCompaction"
           /\ fnCall.task.OutputLevel = 1
           /\ Range(fnCall.task.InputSSTables) =
                 Range(level0Tables) \cup Overlapping(fnCall.levels[1].elems, minKey, maxKey)

\* the table of a level with the oldest created_at
Oldest(tables) ==
    CHOOSE t \in Range(tables) : \A other \in Range(tables) : t.createdAt <= other.createdAt

\* C34: with the Leveled strategy and level 0 under its threshold,
\* SelectCompactionTask picks the lowest level L >= 1 that is over its budget
\* and returns a task of that level's oldest table plus all tables of level
\* L+1 that overlap that table's [min_key, max_key], with output level L+1;
\* it returns no task when no level is over budget.
C34_DeeperTaskInputs ==
    (/\ fnCall.op = "SelectCompactionTask"
     /\ Len(fnCall.levels[0].elems) < maxSSTablesLevel0) =>
        LET over == OverBudget(fnCall.levels)
            L == CHOOSE l \in over : \A m \in over : l <= m
            selected == Oldest(fnCall.levels[L].elems)
        IN IF over = {} THEN fnCall.task.nil
           ELSE /\ ~fnCall.task.nil
                /\ fnCall.task.OutputLevel = L + 1
                /\ Range(fnCall.task.InputSSTables) =
                      {selected} \cup Overlapping(fnCall.levels[L + 1].elems,
                                                  selected.minKey, selected.maxKey)

\* C35: every SSTable is owned by exactly one level: no SSTable is in two
\* level lists or twice in one list, and every table registered in the list
\* of level L has Metadata().Level = L.
C35_OneLevelPerTable ==
    LET places == UNION {{<<level, i>> : i \in 1..Len(sstablesByLevel[level].elems)} :
                            level \in 0..MaxLevel}
    IN /\ \A p1 \in places : \A p2 \in places :
             p1 # p2 => sstablesByLevel[p1[1]].elems[p1[2]] # sstablesByLevel[p2[1]].elems[p2[2]]
       /\ \A pl \in places : sstablesByLevel[pl[1]].elems[pl[2]].level = pl[1]

\* a compaction has installed its output in level 1 and level 0 still has a
\* table registered
C35_Witness ==
    /\ Len(sstablesByLevel[1].elems) >= 1
    /\ Len(sstablesByLevel[0].elems) >= 1

\* a step in which createNewActiveTable opens a WAL: a rotation, or the
\* construction of the service by a new process
OpensWal == wal' # wal \/ (phase = "closed" /\ phase' = "running")

\* C36: every WAL is created under a name whose counter is strictly greater
\* than that of every WAL file already in the directory, files of earlier
\* runs included, and every flush writes its level-0 SSTable under a name
\* that is not in the directory yet: no existing WAL or SSTable file is
\* reopened for append or overwritten.
C36_FreshFileNames ==
    [][/\ OpensWal => \A c \in DOMAIN walFiles : wal' > c
       /\ \A i \in 1..Len(sstablesByLevel'[0].elems) :
             ~RegisteredIn(sstablesByLevel, sstablesByLevel'[0].elems[i]) =>
                 sstablesByLevel'[0].elems[i].fileName \notin DOMAIN sstFiles]_vars

Level0Full == Len(sstablesByLevel[0].elems) >= maxSSTablesLevel0

\* a flush has appended a table to level 0 and left it at or over the threshold
FlushFillsLevel0 ==
    /\ Len(sstablesByLevel'[0].elems) > Len(sstablesByLevel[0].elems)
    /\ Len(sstablesByLevel'[0].elems) >= maxSSTablesLevel0

\* C37: whenever a flush leaves level 0 with at least max_level0_tables
\* tables a compaction is dispatched and, under fair scheduling and without
\* IO failure, is eventually installed; after the install level 0 holds no
\* table that was an input of that compaction.
C37_FullLevel0IsCompacted ==
    /\ [][FlushFillsLevel0 => compactions' = compactions + 1]_vars
    /\ Level0Full ~> ~Level0Full
    /\ [][InstallsTask =>
            \A i \in 1..Len(TaskNow.InputSSTables) :
                \A j \in 1..Len(sstablesByLevel'[0].elems) :
                    sstablesByLevel'[0].elems[j] # TaskNow.InputSSTables[i]]_vars

\* what Get(key) returns from the given memtables, level lists and directory
GetOf(active, queue, levels, files, key) ==
    ServiceGet([Cur EXCEPT !.activeTable = active, !.immutableTables = queue,
                           !.sstablesByLevel = levels, !.sstFiles = files], key)

\* the Put or Delete of this step returns an error
WriteFails == IsWrite /\ lastErr' # Ok

\* C38: a Put or Delete that returns an error (WAL write failure, flush or
\* fsync failure, rotation failure) leaves the observable state unchanged:
\* for every key, Get returns afterwards what it returned before the call.
C38_FailedWriteChangesNothing ==
    [][WriteFails =>
         \A key \in AllKeys :
             GetOf(activeTable', immutableTables', sstablesByLevel', sstFiles', key)
                 = GetOf(activeTable, immutableTables, sstablesByLevel, sstFiles, key)]_vars

\* C40: in every reachable state of a running service, also after
\* createNewActiveTable failed inside rotateMemTable, the active memtable is
\* writable (not read-only) and is not in the immutable queue as well, so
\* that a later Put or Delete is not rejected with a read-only error.
C40_ActiveTableWritable ==
    phase = "running" =>
        /\ ~activeTable.readOnly
        /\ \A i \in 1..Len(immutableTables) : immutableTables[i] # activeTable

\* the flush of this step's rotation had its Build fail
FlushFailsBuild == buildFails /\ IsWrite /\ walCounter' # walCounter

\* C39: if building the level-0 SSTable fails during a flush, no data is lost
\* from the read path: the sealed memtable stays in the immutable queue (or
\* is still consulted by Get), so Get of every key the write of the step did
\* not store returns what it returned before.
C39_FailedBuildKeepsData ==
    [][FlushFailsBuild =>
         \A key \in AllKeys :
             ~MemHas(activeTable', key) =>
                 GetOf(activeTable', immutableTables', sstablesByLevel', sstFiles', key)
                     = GetOf(activeTable, immutableTables, sstablesByLevel, sstFiles, key)]_vars
====
